---- MODULE Spec2Model ----
(***************************************************************************)
(* Model of atomist/sdm-pack-analysis: the goal-graph builder of           *)
(* Interpretation.ts and the analysis / interpretation engine of           *)
(* DefaultProjectAnalyzerBuilder.                                          *)
(***************************************************************************)
EXTENDS FiniteSets, Integers, Sequences, TLC

\* ------------------------------------------------------------------------
\* Bounds
\* ------------------------------------------------------------------------

\* number of phase-function calls made on one interpretation
MaxCalls == 2

\* number of scanners registered with withScanner
MaxScanners == 2

\* number of transform-recipe contributors registered
MaxContributors == 2

\* number of interpreters registered with withInterpreter
MaxInterpreters == 2

\* number of scorers registered with withScorer
MaxScorers == 2

\* ------------------------------------------------------------------------
\* Optional values: <<>> is undefined, <<x>> is x
\* ------------------------------------------------------------------------

None == <<>>

Some(x) == <<x>>

isSet(o) == Len(o) = 1

Range(s) == {s[k] : k \in 1..Len(s)}

\* a list without its repeats: first occurrences, in order
RECURSIVE uniq(_)
uniq(s) ==
    IF s = <<>> THEN <<>>
    ELSE LET front == uniq(SubSeq(s, 1, Len(s) - 1))
             last == s[Len(s)]
         IN IF last \in Range(front) THEN front ELSE Append(front, last)

\* ------------------------------------------------------------------------
\* Goals constructed ahead of time
\* ------------------------------------------------------------------------

cancelGoalName == "cancel"

queueGoalName == "queue"

autofixGoal == "autofix"

codeInspectionGoal == "code-inspection"

\* the Goals an interpreter can select for each phase slot
CheckSlotGoals == <<"lint", "audit">>

BuildSlotGoals == <<"compile", "package">>

TestSlotGoals == <<"test">>

ContainerSlotGoals == <<"docker">>

ReleaseSlotGoals == <<"publish">>

DeploySlotGoals == <<"deploy">>

PhaseGoalNames ==
    Range(BuildSlotGoals) \cup Range(TestSlotGoals) \cup Range(ContainerSlotGoals)
        \cup Range(ReleaseSlotGoals) \cup Range(DeploySlotGoals)

\* g.definition.displayName
displayName(g) ==
    CASE g = "autofix" -> "Autofix"
      [] g = "code-inspection" -> "Code inspection"
      [] g = "lint" -> "Lint"
      [] g = "audit" -> "Audit"
      [] OTHER -> g

\* the disabledGoals lists a preferences element can carry
DisabledGoalsChoices ==
    {<<>>, <<"Lint">>, <<"Audit", "Autofix">>}

VARIABLES
    interpretation,   \* the Interpretation handed to the phase functions
    dependsOn,        \* dependsOn list of every pre-constructed phase goal
    returned,         \* name and result of the latest phase-function call
    calls             \* number of phase-function calls so far

goalVars == <<interpretation, dependsOn, returned, calls>>

VARIABLES
    scannerRegistrations,   \* withScanner registrations, in registration order
    contributorRegistrations, \* withTransformRecipeContributor registrations
    call,             \* the call under way: function, argument kind, options.full
    pc,               \* position of the call
    inFlight,         \* promises started and not yet settled: [kind, idx]
    settled,          \* promises settled in the current stage: [kind, idx]
    cursor,           \* position of each for-loop: registrations visited so far,
                      \* and the scanners awaited by Promise.all in order of resolution
    analysis,         \* the ProjectAnalysis under construction
    transformRecipes, \* the local list performSeedAnalysis accumulates
    analysisSoFar     \* per scanner, what its analysisSoFar argument has shown

VARIABLES
    interpreters,     \* withInterpreter registrations, in registration order
    scorers,          \* withScorer registrations, in registration order
    interp,           \* the Interpretation runInterpretation is building
    run,              \* number of runInterpretation runs started in this call
    nested,           \* the current run was started by enrichToFullAnalysis
    enrichView,       \* per interpreter, the Interpretation its enrich was handed
    scoreView,        \* per scorer, the Interpretation it was handed
    wrote,            \* per interpreter, what its enrich wrote in the current run
    enrichReturned,   \* per interpreter, what its enrich resolved to in the current run
    enrichCount,      \* per interpreter, invocations of enrich in this call
    scoreCount        \* per scorer, invocations in this call

VARIABLES
    rejection,        \* the promise whose rejection ended the call, if any
    swallowed         \* the failures the call caught and went on after

faultVars == <<rejection, swallowed>>

VARIABLES
    weightings,       \* the ScoreWeightings weightedCompositeScore is called with
    composite         \* whether weightedCompositeScore has returned, and its value

scoringVars == <<weightings, composite>>

VARIABLES
    usable,           \* whether isUsableAsSeed has returned, and its value
    conditions,       \* per kind, the run condition each registration was made with
    sdmContext,       \* the SdmContext of the call under way
    callsMade         \* options and context of the calls made on the analyzer so far

VARIABLES
    pu,               \* the push materialChange is asked about, with its push tests
    material          \* whether materialChange has returned, and its value

pushVars == <<pu, material>>

VARIABLES
    pushMessages,     \* what the PushMessageFactory returns, per repository
    preferenceStore,  \* the preferences put so far: [scope, key]
    buttons,          \* the Dismiss and Dismiss all buttons shown so far
    dismissedFor,     \* the messages whose button was used, per repository
    lastRun           \* the latest run of the message goal and what it sent

messageVars == <<pushMessages, preferenceStore, buttons, dismissedFor, lastRun>>

VARIABLES
    pushes,           \* number of pushes whose goals have been set so far
    built,            \* build() has been called on the builder
    goalRegistrations, \* what build() registered with the autofix and inspection goals
    applied,          \* the registrations the two goals applied to the push, if it came
    optionalGoals     \* configuration value sdm.goal.optional

VARIABLES
    invocations,      \* per interpret call in flight on the analyzer: its position
    interpretations   \* the Interpretation objects the calls in flight work on

concurrentVars == <<invocations, interpretations>>

VARIABLES
    hung              \* the promises that never settle

deliveryVars ==
    <<pushes, built, goalRegistrations, applied, optionalGoals, concurrentVars, hung>>

supportVars ==
    <<usable, conditions, sdmContext, callsMade, pushVars, messageVars, deliveryVars>>

registrationVars == <<scannerRegistrations, contributorRegistrations, interpreters, scorers, call>>

analysisVars == <<pc, inFlight, settled, cursor, analysis, transformRecipes, analysisSoFar>>

interpVars ==
    <<interp, run, nested, enrichView, scoreView, wrote, enrichReturned, enrichCount, scoreCount>>

engineVars == <<registrationVars, analysisVars, interpVars, faultVars, scoringVars, supportVars>>

vars == <<goalVars, engineVars>>

\* ------------------------------------------------------------------------
\* Interpretation.ts: the phase functions
\* ------------------------------------------------------------------------

names(gs) == [k \in 1..Len(gs) |-> gs[k].name]

\* goals(..).plan(g).after(pre...): a new GoalWithPrecondition per planned goal
after(planned, pre) == [k \in 1..Len(planned) |-> [name |-> planned[k], dependsOn |-> pre]]

controlGoals(i) ==
    (IF isSet(i.cancelGoal) THEN <<i.cancelGoal[1]>> ELSE <<>>)
        \o (IF isSet(i.queueGoal) THEN <<i.queueGoal[1]>> ELSE <<>>)

\* the checks Goals as assembled before the preferences veto
assembledChecks(i) ==
    LET startup == controlGoals(i)
    IN  (IF Len(i.autofixes) > 0 THEN after(<<autofixGoal>>, startup) ELSE <<>>)
        \o (IF Len(i.inspections) > 0
               THEN after(<<codeInspectionGoal>>, startup \o <<autofixGoal>>) ELSE <<>>)
        \o (IF isSet(i.checkGoals)
               THEN after(i.checkGoals[1], startup \o <<autofixGoal>>) ELSE <<>>)

notDisabledByName(preferences, g) ==
    g.name \notin Range(preferences.disabledGoals)

\* g => !preferences.disabledGoals.includes(g.definition.displayName)
notDisabled(preferences, g) ==
    displayName(g.name) \notin Range(preferences.disabledGoals)

checkGoals(i) ==
    LET checks == assembledChecks(i)
    IN  IF isSet(i.preferences)
        THEN SelectSeq(checks, LAMBDA g : notDisabled(i.preferences[1], g))
        ELSE checks

\* goals.forEach(g => g.dependsOn.push(...startup.goals, ...preCondition.goals))
pushDependsOn(d, slot, startup, preCondition) ==
    IF isSet(slot)
    THEN [g \in DOMAIN d |->
            IF g \in Range(slot[1]) THEN d[g] \o startup \o preCondition ELSE d[g]]
    ELSE d

buildGoals(i, d) ==
    pushDependsOn(d, i.buildGoals, controlGoals(i), names(checkGoals(i)))

\* a || b: b is evaluated only when a returned undefined
orBuildGoals(found, i, d) == IF found THEN d ELSE buildGoals(i, d)

testPreCondition(i) ==
    IF isSet(i.buildGoals) THEN i.buildGoals[1] ELSE names(checkGoals(i))

testGoals(i, d) ==
    pushDependsOn(buildGoals(i, d), i.testGoals, controlGoals(i), testPreCondition(i))

orTestGoals(found, i, d) == IF found THEN d ELSE testGoals(i, d)

\* the container goals wait for the checks only
containerPreConditionChecks(i) == names(checkGoals(i))

containerPreCondition(i) ==
    IF isSet(i.testGoals) THEN i.testGoals[1] ELSE testPreCondition(i)

containerGoals(i, d) ==
    pushDependsOn(orBuildGoals(isSet(i.testGoals), i, testGoals(i, d)),
                  i.containerBuildGoals, controlGoals(i), containerPreCondition(i))

orContainerGoals(found, i, d) == IF found THEN d ELSE containerGoals(i, d)

releasePreCondition(i) ==
    IF isSet(i.containerBuildGoals) THEN i.containerBuildGoals[1] ELSE containerPreCondition(i)

releaseGoals(i, d) ==
    pushDependsOn(
        orBuildGoals(isSet(i.containerBuildGoals) \/ isSet(i.testGoals), i,
            orTestGoals(isSet(i.containerBuildGoals), i, containerGoals(i, d))),
        i.releaseGoals, controlGoals(i), releasePreCondition(i))

deployPreConditionImmediate(i) ==
    IF isSet(i.releaseGoals) THEN i.releaseGoals[1] ELSE names(checkGoals(i))

deployPreCondition(i) ==
    IF isSet(i.releaseGoals) THEN i.releaseGoals[1] ELSE releasePreCondition(i)

deployGoals(i, d) ==
    pushDependsOn(
        orBuildGoals(isSet(i.releaseGoals) \/ isSet(i.containerBuildGoals) \/ isSet(i.testGoals), i,
            orTestGoals(isSet(i.releaseGoals) \/ isSet(i.containerBuildGoals), i,
                orContainerGoals(isSet(i.releaseGoals), i, releaseGoals(i, d)))),
        i.deployGoals, controlGoals(i), deployPreCondition(i))

\* the Goals value a phase function returns, with each goal's dependsOn list
slotResult(slot, d) ==
    IF isSet(slot)
    THEN Some([k \in 1..Len(slot[1]) |-> [name |-> slot[1][k], dependsOn |-> d[slot[1][k]]]])
    ELSE None

\* ------------------------------------------------------------------------
\* Registrations and inputs of the analyzer
\* ------------------------------------------------------------------------

emptyMap == [n \in {} |-> None]

\* a.k :> v overrides: elements[s.name] = s, scores[score.name] = score
put(map, k, v) == (k :> v) @@ map

TechnologyElements ==
    [ name : {"toy", "toy2"},
      referencedEnvironmentVariables :
          {<<>>, <<"frogs", "dogs">>, <<"dogs">>, <<"dogs", "dogs">>} ]

\* a registered scanner: its runWhen in this call and what its promise resolves to
ScannerChoices ==
    { [runWhen |-> FALSE, rejects |-> FALSE, result |-> None],
      [runWhen |-> TRUE, rejects |-> FALSE, result |-> None] }
        \cup {[runWhen |-> TRUE, rejects |-> FALSE, result |-> Some(e)] : e \in TechnologyElements}

\* a CodeTransform written as an arrow function: its Function.name is ""
anonymous(fn) == [fn |-> fn, name |-> ""]

\* a registered contributor: the recipe its analyze resolves to, if any
ContributorChoices ==
    {[originator |-> "none", optional |-> TRUE, rejects |-> FALSE, recipe |-> None],
     [originator |-> "snip", optional |-> TRUE, rejects |-> FALSE,
      recipe |-> Some([parameters |-> <<"thing">>, transforms |-> <<anonymous("snip")>>])]}

ListsOf(choices, n) == [1..n -> choices]

Calls ==
    [fn : {"analyze", "interpret"}, project : BOOLEAN, full : BOOLEAN]

promise(kind, idx) == [kind |-> kind, idx |-> idx]

started(kind, idx) == promise(kind, idx) \in inFlight \cup settled

\* the ProjectAnalysis literal built at the start of analyze
newAnalysis(options) ==
    [ options |-> options,
      elements |-> emptyMap,
      services |-> emptyMap,
      dependencies |-> <<>>,
      referencedEnvironmentVariables |-> <<>>,
      messages |-> <<>>,
      gitStatus |-> None,
      seedAnalysis |-> None,
      scores |-> None,
      inspections |-> None,
      phaseStatus |-> None ]

unread == [elements |-> {}, referencedEnvironmentVariables |-> {}]

\* what a scanner holding the analysis reference reads from it
read(seen, a) ==
    [ elements |-> seen.elements \cup DOMAIN a.elements,
      referencedEnvironmentVariables |->
          seen.referencedEnvironmentVariables \cup Range(a.referencedEnvironmentVariables) ]

noneVisited ==
    [merge |-> 0, contributor |-> 0, interpreter |-> 0, scorer |-> 0, resolved |-> <<>>]

\* ------------------------------------------------------------------------
\* Interpreters and scorers
\* ------------------------------------------------------------------------

SlotNames == {"buildGoals", "deployGoals"}

\* a registered interpreter: its runWhen in this call, the element it looks
\* for, the phase slot it sets (polite: only when the slot is still empty),
\* what it pushes, and what enrich returns when it acted
toyDeployer ==
    [ runWhen |-> TRUE, looksFor |-> Some("toy"), slot |-> Some("deployGoals"),
      polite |-> FALSE, autofixes |-> <<>>, inspections |-> <<>>, messages |-> <<>>,
      returns |-> TRUE, rejects |-> FALSE ]

politeDeployer ==
    [ runWhen |-> TRUE, looksFor |-> None, slot |-> Some("deployGoals"),
      polite |-> TRUE, autofixes |-> <<"fix">>, inspections |-> <<>>,
      messages |-> <<"deploying">>, returns |-> TRUE, rejects |-> FALSE ]

silentFixer ==
    [ runWhen |-> TRUE, looksFor |-> None, slot |-> Some("buildGoals"),
      polite |-> FALSE, autofixes |-> <<"lint-fix">>, inspections |-> <<"lint">>,
      messages |-> <<>>, returns |-> FALSE, rejects |-> FALSE ]

InterpreterChoices ==
    {toyDeployer, politeDeployer, silentFixer, [toyDeployer EXCEPT !.runWhen = FALSE]}

\* a registered scorer: its runWhen in this call and the Score it resolves to
ScorerChoices ==
    { [runWhen |-> FALSE, rejects |-> FALSE, name |-> "thing", score |-> 4],
      [runWhen |-> TRUE, rejects |-> FALSE, name |-> "thing", score |-> 4],
      [runWhen |-> TRUE, rejects |-> FALSE, name |-> "thing", score |-> 2] }

\* no Interpretation has been built yet
noInterpretation ==
    [ chosenInterpreters |-> <<>>,
      slots |-> [n \in SlotNames |-> None],
      autofixes |-> <<>>,
      inspections |-> <<>>,
      scores |-> emptyMap,
      messages |-> <<>> ]

\* the Interpretation literal built at the start of runInterpretation
newInterpretation ==
    [ chosenInterpreters |-> <<>>,
      slots |-> [n \in SlotNames |-> None],
      autofixes |-> <<>>,
      inspections |-> <<>>,
      scores |-> emptyMap,
      messages |-> <<>> ]

\* weightedCompositeScore has not been called
notScored == [returned |-> FALSE, value |-> None]

\* isUsableAsSeed has not been called
notAsked == [returned |-> FALSE, value |-> FALSE]

noPush == [changed |-> {}, materialChangePushTests |-> None]

noRun == [ran |-> FALSE]

\* the interpret calls that can be in flight at the same time
ConcurrentCalls == {1, 2}

\* interpret has not been called
notCalled ==
    [pc |-> "idle", analysis |-> newAnalysis(FALSE), visited |-> 0, scored |-> 0,
     awaiting |-> FALSE]

\* goals are being set for the first push
deliveryFresh ==
    /\ pushes = 1
    /\ built = FALSE
    /\ goalRegistrations = <<>>
    /\ applied = None
    /\ optionalGoals = <<>>
    /\ invocations = [c \in ConcurrentCalls |-> notCalled]
    /\ interpretations = [c \in ConcurrentCalls |-> noInterpretation]

\* and every promise settles
deliveryIdle == deliveryFresh /\ hung = {}

\* no push is looked at and the message goal has not run
utilitiesFresh ==
    /\ deliveryFresh
    /\ pu = noPush
    /\ material = notAsked
    /\ pushMessages = <<>>
    /\ preferenceStore = {}
    /\ buttons = {}
    /\ dismissedFor = {}
    /\ lastRun = noRun

utilitiesIdle == utilitiesFresh /\ hung = {}

\* the functions of the support files have not been called
supportFresh ==
    /\ utilitiesFresh
    /\ usable = notAsked
    /\ conditions = <<>>
    /\ sdmContext = [flag |-> FALSE]
    /\ callsMade = <<>>

supportIdle == supportFresh /\ hung = {}

\* runInterpretation has not run
interpreterIdle ==
    /\ weightings = emptyMap
    /\ composite = notScored
    /\ rejection = None
    /\ swallowed = {}
    /\ enrichView = [i \in 1..MaxInterpreters |-> None]
    /\ scoreView = [i \in 1..MaxScorers |-> None]
    /\ wrote = [i \in 1..MaxInterpreters |-> {}]
    /\ enrichReturned = [i \in 1..MaxInterpreters |-> None]
    /\ enrichCount = [i \in 1..MaxInterpreters |-> 0]
    /\ scoreCount = [i \in 1..MaxScorers |-> 0]
    /\ interp = noInterpretation
    /\ run = 0
    /\ nested = FALSE

noInterpreterState == supportIdle /\ interpreterIdle

EngineIdle ==
    /\ interpreters = <<>>
    /\ scorers = <<>>
    /\ noInterpreterState
    /\ scannerRegistrations = <<>>
    /\ contributorRegistrations = <<>>
    /\ call = [fn |-> "none", project |-> FALSE, full |-> FALSE]
    /\ pc = "idle"
    /\ inFlight = {}
    /\ settled = {}
    /\ cursor = noneVisited
    /\ analysis = newAnalysis(FALSE)
    /\ transformRecipes = <<>>
    /\ analysisSoFar = <<>>

GoalsIdle ==
    /\ interpretation =
          [ cancelGoal |-> None, queueGoal |-> None, autofixes |-> <<>>,
            inspections |-> <<>>, checkGoals |-> None, buildGoals |-> None,
            testGoals |-> None, containerBuildGoals |-> None, releaseGoals |-> None,
            deployGoals |-> None, preferences |-> None ]
    /\ dependsOn = [g \in PhaseGoalNames |-> <<>>]
    /\ returned = [fn |-> "none", goals |-> None]
    /\ calls = 0

\* ------------------------------------------------------------------------
\* DefaultProjectAnalyzerBuilder.analyze
\* ------------------------------------------------------------------------

\* the registration behind a promise
registrationOf(q) ==
    CASE q.kind = "scanner" -> scannerRegistrations[q.idx]
      [] q.kind = "contributor" -> contributorRegistrations[q.idx]
      [] q.kind = "interpreter" -> interpreters[q.idx]
      [] q.kind = "scorer" -> scorers[q.idx]

fulfilsAnyway(q) == TRUE

\* the awaited promise is fulfilled; a rejected one throws out of the await
fulfils(q) == ~registrationOf(q).rejects

eligibleScanners == {i \in 1..Len(scannerRegistrations) : scannerRegistrations[i].runWhen}

\* Promise.all(...): every eligible scanner has resolved
allScanned == \A i \in eligibleScanners : promise("scanner", i) \in settled

\* .map(s => s.action(p, sdmContext, analysis, options)): scanner i is invoked
\* with the shared analysis object, after the eligible scanners before it
StartScanner(i) ==
    /\ pc = "scanning"
    /\ i \in eligibleScanners
    /\ ~started("scanner", i)
    /\ \A j \in eligibleScanners : j < i => started("scanner", j)
    /\ inFlight' = inFlight \cup {promise("scanner", i)}
    /\ analysisSoFar' = [analysisSoFar EXCEPT ![i] = read(@, analysis)]
    /\ UNCHANGED <<goalVars, scoringVars, supportVars, registrationVars, faultVars, interpVars, pc, settled, cursor, analysis, transformRecipes>>

\* a scanner's promise resolves; until then it can read the analysis it was given
ResolveScanner(i) ==
    /\ pc = "scanning"
    /\ promise("scanner", i) \in inFlight
    /\ fulfils(promise("scanner", i))
    /\ inFlight' = inFlight \ {promise("scanner", i)}
    /\ settled' = settled \cup {promise("scanner", i)}
    /\ analysisSoFar' = [analysisSoFar EXCEPT ![i] = read(@, analysis)]
    /\ cursor' = [cursor EXCEPT !.resolved = Append(@, i)]
    /\ UNCHANGED <<goalVars, scoringVars, supportVars, registrationVars, faultVars, interpVars, pc, analysis, transformRecipes>>

\* referencedEnvironmentVariables.push(...s.referencedEnvironmentVariables
\*     .filter(e => !referencedEnvironmentVariables.includes(e)))
mergeEnvironmentVariables(merged, mine) ==
    merged \o SelectSeq(mine, LAMBDA e : e \notin Range(merged))

\* the first element of a name stays
keepElement(elements, s) ==
    IF s.name \in DOMAIN elements THEN elements ELSE put(elements, s.name, s)

\* elements[s.name] = s
setElement(elements, s) == put(elements, s.name, s)

\* Object.assign(object, source): a property of source replaces that of object
assign(object, source) ==
    [k \in DOMAIN object \cup DOMAIN source |->
        IF k \in DOMAIN source THEN source[k] ELSE object[k]]

\* baseMerge on two plain objects whose properties are strings: the
\* properties of source are assigned, the other properties of object stay
mergeObject(objValue, srcValue) ==
    [p \in DOMAIN objValue \cup DOMAIN srcValue |->
        IF p \in DOMAIN srcValue THEN srcValue[p] ELSE objValue[p]]

\* _.merge(object, source): properties that are objects on both sides are
\* merged property by property, any other property of source is assigned
merge(object, source) ==
    [k \in DOMAIN object \cup DOMAIN source |->
        IF k \notin DOMAIN source THEN object[k]
        ELSE IF k \notin DOMAIN object THEN source[k]
        ELSE mergeObject(object[k], source[k])]

\* if (!!s.services) { _.merge(services, s.services) }
mergeServices(services, s) ==
    IF "services" \in DOMAIN s THEN merge(services, s.services) ELSE services

\* if (!!s.dependencies) { dependencies.push(...s.dependencies) }
pushDependencies(dependencies, s) ==
    IF "dependencies" \in DOMAIN s THEN dependencies \o s.dependencies ELSE dependencies

\* one iteration of for (const s of scanned)
mergeScanned(a, s) ==
    [a EXCEPT !.elements = setElement(@, s),
              !.services = mergeServices(@, s),
              !.dependencies = pushDependencies(@, s),
              !.referencedEnvironmentVariables =
                  IF "referencedEnvironmentVariables" \in DOMAIN s
                  THEN mergeEnvironmentVariables(@, s.referencedEnvironmentVariables)
                  ELSE @]

\* the merge loop may take the scan of registration i
mergeReadyNext(i) == promise("scanner", i) \in settled \/ i \notin eligibleScanners

mergeReady(i) == allScanned

\* the results array holds the results in the order the promises resolved
inOrderOfResolution(order, k) ==
    IF k \in eligibleScanners
    THEN order[Cardinality({j \in eligibleScanners : j <= k})]
    ELSE k

\* Promise.all(promises): the result at the place of the k-th promise is the
\* result of the k-th promise, in whatever order the promises resolved
promiseAll(order, k) == k

\* the loop over the scan results, in registration order; scanners that are
\* not eligible or resolved to nothing have no entry in scanned
MergeScanned ==
    /\ pc = "scanning"
    /\ cursor.merge < Len(scannerRegistrations)
    /\ LET i == cursor.merge + 1
           reg == scannerRegistrations[promiseAll(cursor.resolved, i)]
       IN  /\ mergeReady(i)
           /\ analysis' = IF i \in eligibleScanners /\ isSet(reg.result)
                          THEN mergeScanned(analysis, reg.result[1])
                          ELSE analysis
           /\ cursor' = [cursor EXCEPT !.merge = i]
    /\ UNCHANGED <<goalVars, scoringVars, supportVars, registrationVars, faultVars, interpVars, pc, inFlight, settled, transformRecipes, analysisSoFar>>

merged == allScanned /\ cursor.merge = Len(scannerRegistrations)

\* the array of results is not used after the loop
afterMerge(c) == [c EXCEPT !.resolved = <<>>]

\* ------------------------------------------------------------------------
\* performSeedAnalysis
\* ------------------------------------------------------------------------

noAwait == TRUE

\* await-in-loop: the previous promise has settled before the next call
awaited == inFlight = {}

fullAlways == TRUE

\* options && options.full, options defaulting to { full: false }
fullAsked == call.full

\* if (options && options.full) ... performSeedAnalysis(...)
BeginSeedAnalysis ==
    /\ pc = "scanning"
    /\ merged
    /\ fullAsked
    /\ pc' = "seed"
    /\ cursor' = afterMerge(cursor)
    /\ UNCHANGED <<goalVars, scoringVars, supportVars, registrationVars, faultVars, interpVars, inFlight, settled, analysis, transformRecipes, analysisSoFar>>

\* contributor.contributor.analyze(project, analysis, sdmContext) is called
StartContributor(i) ==
    /\ pc = "seed"
    /\ i = cursor.contributor + 1
    /\ i <= Len(contributorRegistrations)
    /\ awaited
    /\ inFlight' = inFlight \cup {promise("contributor", i)}
    /\ cursor' = [cursor EXCEPT !.contributor = i]
    /\ UNCHANGED <<goalVars, scoringVars, supportVars, registrationVars, faultVars, interpVars, pc, settled, analysis, transformRecipes, analysisSoFar>>

\* parameters already claimed by the recipes accepted so far
claimedParameters(recipes) ==
    UNION {Range(recipes[k].recipe.parameters) : k \in 1..Len(recipes)}

\* _.flatten(transformRecipes.map(t => t.recipe.transforms)) by Function.name
claimedTransformNames(recipes) ==
    UNION {{recipes[k].recipe.transforms[t].name : t \in 1..Len(recipes[k].recipe.transforms)}
              : k \in 1..Len(recipes)}

\* rawRecipe.parameters.filter(p => !...some(existing => existing.name === p.name))
keepAllParameters(recipes, raw) == raw.parameters

unclaimedParameters(recipes, raw) ==
    SelectSeq(raw.parameters, LAMBDA q : q \notin claimedParameters(recipes))

\* transforms: rawRecipe.transforms, kept as returned
acceptRecipeKeepingTransforms(recipes, reg) ==
    IF isSet(reg.recipe)
    THEN Append(recipes,
            [ originator |-> reg.originator,
              optional |-> reg.optional,
              recipe |-> [ parameters |-> unclaimedParameters(recipes, reg.recipe[1]),
                           transforms |-> reg.recipe[1].transforms ] ])
    ELSE recipes

\* both lists filtered against the recipes accepted so far
acceptRecipe(recipes, reg) ==
    IF isSet(reg.recipe)
    THEN Append(recipes,
            [ originator |-> reg.originator,
              optional |-> reg.optional,
              recipe |-> [ parameters |-> unclaimedParameters(recipes, reg.recipe[1]),
                           transforms |->
                               SelectSeq(reg.recipe[1].transforms,
                                   LAMBDA t : t.name \notin claimedTransformNames(recipes)) ] ])
    ELSE recipes

\* the contributor's promise resolves and its recipe, if any, is appended
ResolveContributor(i) ==
    /\ pc = "seed"
    /\ promise("contributor", i) \in inFlight
    /\ fulfils(promise("contributor", i))
    /\ inFlight' = inFlight \ {promise("contributor", i)}
    /\ settled' = settled \cup {promise("contributor", i)}
    /\ transformRecipes' = acceptRecipe(transformRecipes, contributorRegistrations[i])
    /\ UNCHANGED <<goalVars, scoringVars, supportVars, registrationVars, faultVars, interpVars, pc, cursor, analysis, analysisSoFar>>

\* performSeedAnalysis of the analyzer with full enrichment: as above, with
\* the recipe's transforms kept as returned
ResolveContributorOfFull(i) ==
    /\ pc = "seed"
    /\ promise("contributor", i) \in inFlight
    /\ fulfils(promise("contributor", i))
    /\ inFlight' = inFlight \ {promise("contributor", i)}
    /\ settled' = settled \cup {promise("contributor", i)}
    /\ transformRecipes' = acceptRecipeKeepingTransforms(transformRecipes, contributorRegistrations[i])
    /\ UNCHANGED <<goalVars, scoringVars, supportVars, registrationVars, faultVars, interpVars, pc, cursor, analysis, analysisSoFar>>

seedAnalysed ==
    /\ pc = "seed"
    /\ awaited
    /\ cursor.contributor = Len(contributorRegistrations)

\* return analysis
ReturnAnalysis ==
    /\ \/ pc = "scanning" /\ merged /\ ~fullAsked
       \/ seedAnalysed
    /\ pc' = "analyzed"
    /\ analysis' = IF pc = "seed"
                   THEN [analysis EXCEPT !.seedAnalysis = Some(transformRecipes)]
                   ELSE analysis
    /\ cursor' = afterMerge(cursor)
    /\ UNCHANGED <<goalVars, scoringVars, supportVars, registrationVars, faultVars, interpVars, inFlight, settled, transformRecipes,
                   analysisSoFar>>

InitAnalyze ==
    /\ GoalsIdle
    /\ interpreters = <<>>
    /\ scorers = <<>>
    /\ noInterpreterState
    /\ scannerRegistrations \in ListsOf(ScannerChoices, MaxScanners)
    /\ contributorRegistrations \in ListsOf(ContributorChoices, MaxContributors)
    /\ call \in {c \in Calls : c.fn = "analyze" /\ c.project}
    /\ pc = "scanning"
    /\ inFlight = {}
    /\ settled = {}
    /\ cursor = noneVisited
    /\ analysis = newAnalysis(call.full)
    /\ transformRecipes = <<>>
    /\ analysisSoFar = [i \in 1..MaxScanners |-> unread]

NextAnalyze ==
    \/ \E i \in 1..MaxScanners : StartScanner(i)
    \/ \E i \in 1..MaxScanners : ResolveScanner(i)
    \/ MergeScanned
    \/ BeginSeedAnalysis
    \/ \E i \in 1..MaxContributors : StartContributor(i)
    \/ \E i \in 1..MaxContributors : ResolveContributor(i)
    \/ ReturnAnalysis

SpecAnalyze == InitAnalyze /\ [][NextAnalyze]_vars

\* ------------------------------------------------------------------------
\* Properties of analyze
\* ------------------------------------------------------------------------

RECURSIVE returnedEnvironmentVariables(_)
returnedEnvironmentVariables(n) ==
    IF n = 0 THEN <<>>
    ELSE returnedEnvironmentVariables(n - 1)
            \o (IF n \in eligibleScanners /\ isSet(scannerRegistrations[n].result)
                THEN scannerRegistrations[n].result[1].referencedEnvironmentVariables
                ELSE <<>>)

\* C3: after analyze, analysis.referencedEnvironmentVariables holds no name
\* twice and lists the names the eligible scanners returned in order of first
\* occurrence.
C3_EnvironmentVariablesDeduplicated ==
    pc = "analyzed" =>
        LET env == analysis.referencedEnvironmentVariables
        IN  /\ \A k, l \in 1..Len(env) : k # l => env[k] # env[l]
            /\ env = uniq(returnedEnvironmentVariables(Len(scannerRegistrations)))

C5_LaterScannerSeesEarlierWork ==
    \A i, j \in eligibleScanners :
        (i < j /\ isSet(scannerRegistrations[i].result) /\ promise("scanner", j) \in settled)
            => scannerRegistrations[i].result[1].name \in analysisSoFar[j].elements

\* the eligible scanners that resolved to an element, and the element of each
scanned == {i \in eligibleScanners : isSet(scannerRegistrations[i].result)}

elementOf(i) == scannerRegistrations[i].result[1]

lastOf(indexes) == CHOOSE j \in indexes : \A k \in indexes : k <= j

\* C29: after analyze, analysis.elements has exactly one entry per distinct
\* name among the elements returned by the eligible scanners, and of two
\* elements of the same name the one merged later is the entry.
C29_ElementsByNameLastWins ==
    pc = "analyzed" =>
        /\ DOMAIN analysis.elements = {elementOf(i).name : i \in scanned}
        /\ \A name \in DOMAIN analysis.elements :
                analysis.elements[name] =
                    elementOf(lastOf({i \in scanned : elementOf(i).name = name}))

C29_Witness ==
    /\ pc = "analyzed"
    /\ scanned = {1, 2}
    /\ elementOf(1).name = "toy" /\ elementOf(2).name = "toy"
    /\ elementOf(1).referencedEnvironmentVariables = <<"dogs">>
    /\ elementOf(2).referencedEnvironmentVariables = <<"frogs", "dogs">>
    /\ analysis.elements = ("toy" :> elementOf(2))

\* ------------------------------------------------------------------------
\* analyze over scanners whose elements carry services and dependencies
\* ------------------------------------------------------------------------

\* two values of Dependency
lodash == [artifact |-> "lodash", version |-> "4.17.11"]

axios == [artifact |-> "axios", version |-> "0.18.0"]

\* elements with and without the optional services and dependencies; Service
\* is an open interface: {} as in the tests, or an object with properties
ServiceElements ==
    { [name |-> "toy", referencedEnvironmentVariables |-> <<>>,
       services |-> [riak |-> emptyMap, rabbitmq |-> emptyMap, memcached |-> emptyMap],
       dependencies |-> <<>>],
      [name |-> "node", referencedEnvironmentVariables |-> <<>>,
       services |-> [riak |-> [version |-> "2"]],
       dependencies |-> <<lodash>>],
      [name |-> "spring", referencedEnvironmentVariables |-> <<>>,
       services |-> [riak |-> [version |-> "3", port |-> "8087"],
                     mongodb |-> [version |-> "2"]]],
      [name |-> "npm", referencedEnvironmentVariables |-> <<>>,
       dependencies |-> <<lodash, axios, lodash>>],
      [name |-> "docs", referencedEnvironmentVariables |-> <<>>] }

ServiceScannerChoices ==
    {[runWhen |-> TRUE, rejects |-> FALSE, result |-> None]}
        \cup {[runWhen |-> TRUE, rejects |-> FALSE, result |-> Some(s)] : s \in ServiceElements}

InitServices ==
    /\ GoalsIdle
    /\ interpreters = <<>>
    /\ scorers = <<>>
    /\ noInterpreterState
    /\ scannerRegistrations \in ListsOf(ServiceScannerChoices, MaxScanners)
    /\ contributorRegistrations \in
            ListsOf({c \in ContributorChoices : c.originator = "none"}, MaxContributors)
    /\ call \in {c \in Calls : c.fn = "analyze" /\ c.project}
    /\ pc = "scanning"
    /\ inFlight = {}
    /\ settled = {}
    /\ cursor = noneVisited
    /\ analysis = newAnalysis(call.full)
    /\ transformRecipes = <<>>
    /\ analysisSoFar = [i \in 1..MaxScanners |-> unread]

SpecServices == InitServices /\ [][NextAnalyze]_vars

servicesOf(i) == IF "services" \in DOMAIN elementOf(i) THEN elementOf(i).services ELSE emptyMap

dependenciesOf(i) ==
    IF "dependencies" \in DOMAIN elementOf(i) THEN elementOf(i).dependencies ELSE <<>>

\* the returned elements that have the service key, and those whose value of it
\* has the property
providers(key) == {i \in scanned : key \in DOMAIN servicesOf(i)}

providersOf(key, property) ==
    {i \in providers(key) : property \in DOMAIN servicesOf(i)[key]}

RECURSIVE returnedDependencies(_)
returnedDependencies(n) ==
    IF n = 0 THEN <<>>
    ELSE returnedDependencies(n - 1) \o (IF n \in scanned THEN dependenciesOf(n) ELSE <<>>)

everyServiceKey ==
    DOMAIN analysis.services = UNION {DOMAIN servicesOf(i) : i \in scanned}

pulledUpUnchanged ==
    \A key \in DOMAIN analysis.services :
        Cardinality(providers(key)) = 1 =>
            analysis.services[key] = servicesOf(lastOf(providers(key)))[key]

dependenciesConcatenated ==
    analysis.dependencies = returnedDependencies(Len(scannerRegistrations))

\* C30: after analyze, analysis.services has every service key of the returned
\* elements, a key only one element has holds that element's value, a key
\* several elements have holds, property by property, the value merged in last
\* among the elements that have the property, and analysis.dependencies is the
\* concatenation of the elements' dependencies with duplicates kept.
C30_ServicesDeepMerged ==
    pc = "analyzed" =>
        /\ everyServiceKey
        /\ pulledUpUnchanged
        /\ \A key \in DOMAIN analysis.services :
                /\ DOMAIN analysis.services[key] =
                        UNION {DOMAIN servicesOf(i)[key] : i \in providers(key)}
                /\ \A property \in DOMAIN analysis.services[key] :
                        analysis.services[key][property] =
                            servicesOf(lastOf(providersOf(key, property)))[key][property]
        /\ dependenciesConcatenated

C30_Witness ==
    /\ pc = "analyzed"
    /\ scanned = {1, 2}
    /\ elementOf(1).name = "spring" /\ elementOf(2).name = "node"
    /\ analysis.services =
            [riak |-> [version |-> "2", port |-> "8087"], mongodb |-> [version |-> "2"]]
    /\ analysis.dependencies = <<lodash>>

\* C30 as stated: a key several elements have holds the value of the element
\* merged in last.
C30_CollidingKeyHoldsLastValue ==
    pc = "analyzed" =>
        /\ everyServiceKey
        /\ \A key \in DOMAIN analysis.services :
                analysis.services[key] = servicesOf(lastOf(providers(key)))[key]
        /\ dependenciesConcatenated

\* the merge of the results of the first n registrations, in registration order
RECURSIVE mergedInRegistrationOrder(_)
mergedInRegistrationOrder(n) ==
    IF n = 0 THEN newAnalysis(call.full)
    ELSE IF n \in scanned
         THEN mergeScanned(mergedInRegistrationOrder(n - 1), elementOf(n))
         ELSE mergedInRegistrationOrder(n - 1)

\* C33: the Analysis analyze returns is determined by the scanners' results
\* and their registration order: in whatever order the scanner promises
\* resolved, elements, services, dependencies and
\* referencedEnvironmentVariables are the merge of the results in
\* registration order.
C33_ResolutionOrderIrrelevant ==
    pc = "analyzed" =>
        /\ analysis.elements =
                mergedInRegistrationOrder(Len(scannerRegistrations)).elements
        /\ analysis.services =
                mergedInRegistrationOrder(Len(scannerRegistrations)).services
        /\ analysis.dependencies =
                mergedInRegistrationOrder(Len(scannerRegistrations)).dependencies
        /\ analysis.referencedEnvironmentVariables =
                mergedInRegistrationOrder(Len(scannerRegistrations)).referencedEnvironmentVariables

\* the second scanner resolved before the first
C33_Witness ==
    /\ pc = "scanning"
    /\ merged
    /\ cursor.resolved = <<2, 1>>
    /\ scanned = {1, 2}
    /\ elementOf(1).name = "spring" /\ elementOf(2).name = "node"
    /\ analysis.services =
            [riak |-> [version |-> "2", port |-> "8087"], mongodb |-> [version |-> "2"]]
    /\ DOMAIN analysis.elements = {"spring", "node"}

\* C14: the Analysis returned by analyze carries a seedAnalysis if and only
\* if options.full is true, and no recipe contributor is invoked when full
\* is false.
C14_SeedAnalysisIffFull ==
    /\ pc = "analyzed" => (isSet(analysis.seedAnalysis) <=> call.full)
    /\ ~call.full => \A i \in 1..Len(contributorRegistrations) : ~started("contributor", i)

C14_Witness ==
    /\ pc = "analyzed"
    /\ call.full
    /\ isSet(analysis.seedAnalysis)
    /\ Len(analysis.seedAnalysis[1]) = 1
    /\ started("contributor", 1) /\ started("contributor", 2)

\* ------------------------------------------------------------------------
\* DefaultProjectAnalyzerBuilder.interpret / runInterpretation
\* ------------------------------------------------------------------------

\* the value an interpreter places in a phase slot: a Goals object of its own
goalsOf(idx) == [by |-> idx, run |-> run]

actsOn(reg, a) == ~isSet(reg.looksFor) \/ reg.looksFor[1] \in DOMAIN a.elements

setsSlot(reg, a, i) ==
    /\ actsOn(reg, a)
    /\ isSet(reg.slot)
    /\ ~(reg.polite /\ isSet(i.slots[reg.slot[1]]))

\* interpreter.action.enrich(interpretation, sdmContext): the mutated
\* Interpretation and the boolean the promise resolves to
enrich(reg, idx, a, i) ==
    [ interpretation |->
          [i EXCEPT !.slots = IF setsSlot(reg, a, i)
                              THEN [@ EXCEPT ![reg.slot[1]] = Some(goalsOf(idx))]
                              ELSE @,
                    !.autofixes = IF actsOn(reg, a) THEN @ \o reg.autofixes ELSE @,
                    !.inspections = IF actsOn(reg, a) THEN @ \o reg.inspections ELSE @,
                    !.messages = IF actsOn(reg, a) THEN @ \o reg.messages ELSE @],
      enriched |-> actsOn(reg, a) /\ reg.returns /\ (reg.polite => setsSlot(reg, a, i)),
      wrote |-> (IF setsSlot(reg, a, i) THEN {reg.slot[1]} ELSE {})
                    \cup (IF actsOn(reg, a)
                          THEN Range(reg.autofixes) \cup Range(reg.inspections)
                                  \cup Range(reg.messages)
                          ELSE {}) ]

\* the argument enrich and the scorers receive: the one shared Interpretation
handedFresh(i) == newInterpretation

handed(i) == i

chooseAlways(chosen, idx, enriched) == Append(chosen, idx)

\* if (enriched) { interpretation.reason.chosenInterpreters.push(interpreter.action) }
choose(chosen, idx, enriched) == IF enriched THEN Append(chosen, idx) ELSE chosen

\* this.runInterpretation(analysis, sdmContext, options) builds its Interpretation
BeginInterpretation ==
    /\ pc = "analyzed"
    /\ call.fn = "interpret"
    /\ pc' = "interpreting"
    /\ interp' = newInterpretation
    /\ run' = run + 1
    /\ cursor' = [cursor EXCEPT !.interpreter = 0, !.scorer = 0]
    /\ settled' = {q \in settled : q.kind \notin {"interpreter", "scorer"}}
    /\ wrote' = [i \in 1..MaxInterpreters |-> {}]
    /\ enrichReturned' = [i \in 1..MaxInterpreters |-> None]
    /\ UNCHANGED <<goalVars, scoringVars, supportVars, registrationVars, faultVars, inFlight, analysis, transformRecipes,
                   analysisSoFar, nested, enrichView, scoreView, enrichCount, scoreCount>>

\* one iteration of for (const interpreter of this.interpreters) up to the await
VisitInterpreter(i) ==
    /\ pc = "interpreting"
    /\ i = cursor.interpreter + 1
    /\ i <= Len(interpreters)
    /\ awaited
    /\ cursor' = [cursor EXCEPT !.interpreter = i]
    /\ IF interpreters[i].runWhen
       THEN /\ inFlight' = inFlight \cup {promise("interpreter", i)}
            /\ enrichView' = [enrichView EXCEPT ![i] = Some(handed(interp))]
            /\ enrichCount' = [enrichCount EXCEPT ![i] = @ + 1]
       ELSE UNCHANGED <<inFlight, enrichView, enrichCount>>
    /\ UNCHANGED <<goalVars, scoringVars, supportVars, registrationVars, faultVars, pc, settled, analysis, transformRecipes,
                   analysisSoFar, interp, run, nested, scoreView, wrote, enrichReturned,
                   scoreCount>>

\* the mutations of an enrich that resolved to false are rolled back
undoneUnlessEnriched(before, res) ==
    IF res.enriched THEN res.interpretation ELSE before

\* enrich mutates the one Interpretation object in place: whatever it
\* resolves to, the object holds its mutations afterwards
afterEnrich(before, res) == res.interpretation

\* the promise of enrich resolves: its mutations are in the shared
\* Interpretation and the interpreter is chosen if it resolved to true
ResolveEnrich(i) ==
    /\ pc = "interpreting"
    /\ promise("interpreter", i) \in inFlight
    /\ fulfils(promise("interpreter", i))
    /\ inFlight' = inFlight \ {promise("interpreter", i)}
    /\ settled' = settled \cup {promise("interpreter", i)}
    /\ LET res == enrich(interpreters[i], i, analysis, handed(interp))
       IN  /\ interp' = [afterEnrich(handed(interp), res) EXCEPT
                            !.chosenInterpreters = choose(@, i, res.enriched)]
           /\ wrote' = [wrote EXCEPT ![i] = res.wrote]
           /\ enrichReturned' = [enrichReturned EXCEPT ![i] = Some(res.enriched)]
    /\ UNCHANGED <<goalVars, scoringVars, supportVars, registrationVars, faultVars, pc, cursor, analysis, transformRecipes,
                   analysisSoFar, run, nested, enrichView, scoreView, enrichCount, scoreCount>>

interpreted == cursor.interpreter = Len(interpreters) /\ awaited

\* one iteration of for (const scorer of this.scorers) up to the await
VisitScorer(j) ==
    /\ pc = "interpreting"
    /\ interpreted
    /\ j = cursor.scorer + 1
    /\ j <= Len(scorers)
    /\ awaited
    /\ cursor' = [cursor EXCEPT !.scorer = j]
    /\ IF scorers[j].runWhen
       THEN /\ inFlight' = inFlight \cup {promise("scorer", j)}
            /\ scoreView' = [scoreView EXCEPT ![j] = Some(handed(interp))]
            /\ scoreCount' = [scoreCount EXCEPT ![j] = @ + 1]
       ELSE UNCHANGED <<inFlight, scoreView, scoreCount>>
    /\ UNCHANGED <<goalVars, scoringVars, supportVars, registrationVars, faultVars, pc, settled, analysis, transformRecipes,
                   analysisSoFar, interp, run, nested, enrichView, wrote, enrichReturned,
                   enrichCount>>

\* the scores keep the first Score of a name
recordFirstScore(scores, score) ==
    IF score.name \in DOMAIN scores THEN scores ELSE put(scores, score.name, score)

\* interpretation.scores[score.name] = score
recordScore(scores, score) == put(scores, score.name, score)

\* const score = await scorer.action(interpretation, sdmContext), and its record
ResolveScorer(j) ==
    /\ pc = "interpreting"
    /\ promise("scorer", j) \in inFlight
    /\ fulfils(promise("scorer", j))
    /\ inFlight' = inFlight \ {promise("scorer", j)}
    /\ settled' = settled \cup {promise("scorer", j)}
    /\ interp' = [interp EXCEPT !.scores =
            recordScore(@,
                [name |-> scorers[j].name, score |-> scorers[j].score, by |-> j, run |-> run])]
    /\ UNCHANGED <<goalVars, scoringVars, supportVars, registrationVars, faultVars, pc, cursor, analysis, transformRecipes,
                   analysisSoFar, run, nested, enrichView, scoreView, wrote, enrichReturned,
                   enrichCount, scoreCount>>

scored == interpreted /\ cursor.scorer = Len(scorers)

\* return interpretation
ReturnInterpretation ==
    /\ pc = "interpreting"
    /\ scored
    /\ ~nested
    /\ pc' = "done"
    /\ UNCHANGED <<goalVars, scoringVars, supportVars, registrationVars, faultVars, interpVars, inFlight, settled, cursor,
                   analysis, transformRecipes, analysisSoFar>>

toyScanner ==
    [ runWhen |-> TRUE, rejects |-> FALSE,
      result |-> Some([name |-> "toy", referencedEnvironmentVariables |-> <<"frogs", "dogs">>]) ]

toy2Scanner ==
    [ runWhen |-> TRUE, rejects |-> FALSE,
      result |-> Some([name |-> "toy2", referencedEnvironmentVariables |-> <<"dogs">>]) ]

AlwaysTRC ==
    [ originator |-> "always", optional |-> TRUE, rejects |-> FALSE,
      recipe |-> Some([parameters |-> <<"foo">>, transforms |-> <<anonymous("addFile")>>]) ]

\* the analyzers interpret is exercised with
InterpretScanners == {<<toy2Scanner, toyScanner>>, <<toy2Scanner>>}

InterpretContributors ==
    {<<AlwaysTRC, [originator |-> "none", optional |-> FALSE, rejects |-> FALSE, recipe |-> None]>>}

\* interpret(p) is given a Project, or an Analysis computed earlier
givenAnalysis(c, regs) ==
    IF c.project THEN newAnalysis(c.full)
    ELSE mergeScanned(newAnalysis(FALSE), regs[1].result[1])

\* whatever interpret is given is analyzed first
analyzeAlways(c) == "scanning"

\* const analysis = isProject(p) ? await this.analyze(p, sdmContext, options) : p
analyzeIfProject(c) == IF c.project THEN "scanning" ELSE "analyzed"

InitInterpret ==
    /\ GoalsIdle
    /\ scannerRegistrations \in InterpretScanners
    /\ contributorRegistrations \in InterpretContributors
    /\ interpreters \in ListsOf(InterpreterChoices, MaxInterpreters)
    /\ scorers \in ListsOf(ScorerChoices, MaxScorers)
    /\ call \in {c \in Calls : c.fn = "interpret"}
    /\ pc = analyzeIfProject(call)
    /\ inFlight = {}
    /\ settled = {}
    /\ cursor = noneVisited
    /\ analysis = givenAnalysis(call, scannerRegistrations)
    /\ transformRecipes = <<>>
    /\ analysisSoFar = [i \in 1..MaxScanners |-> unread]
    /\ noInterpreterState

NextInterpret ==
    \/ \E i \in 1..MaxScanners : StartScanner(i)
    \/ \E i \in 1..MaxScanners : ResolveScanner(i)
    \/ MergeScanned
    \/ BeginSeedAnalysis
    \/ \E i \in 1..MaxContributors : StartContributor(i)
    \/ \E i \in 1..MaxContributors : ResolveContributor(i)
    \/ ReturnAnalysis
    \/ BeginInterpretation
    \/ \E i \in 1..MaxInterpreters : VisitInterpreter(i)
    \/ \E i \in 1..MaxInterpreters : ResolveEnrich(i)
    \/ \E j \in 1..MaxScorers : VisitScorer(j)
    \/ \E j \in 1..MaxScorers : ResolveScorer(j)
    \/ ReturnInterpretation

SpecInterpret == InitInterpret /\ [][NextInterpret]_vars

returnedElements ==
    {scannerRegistrations[i].result[1].name :
        i \in {k \in eligibleScanners : isSet(scannerRegistrations[k].result)}}

\* C25: interpret called with a precomputed Analysis invokes no scanner and
\* no recipe contributor and interprets that very Analysis; called with a
\* Project it runs analyze first, so that every eligible scanner has completed
\* and its result has been merged before the first interpreter is invoked.
C25_AnalyzeOnlyForProject ==
    /\ ~call.project =>
            /\ \A q \in inFlight \cup settled : q.kind \notin {"scanner", "contributor"}
            /\ analysis = givenAnalysis(call, scannerRegistrations)
    /\ call.project =>
            \A i \in 1..Len(interpreters) :
                enrichCount[i] > 0 =>
                    /\ \A k \in eligibleScanners : promise("scanner", k) \in settled
                    /\ cursor.merge = Len(scannerRegistrations)
                    /\ DOMAIN analysis.elements = returnedElements

C25_Witness ==
    /\ call.project
    /\ pc = "interpreting"
    /\ enrichCount[1] = 1
    /\ promise("interpreter", 1) \in inFlight
    /\ {promise("scanner", 1), promise("scanner", 2)} \subseteq settled
    /\ DOMAIN analysis.elements = {"toy", "toy2"}

\* ------------------------------------------------------------------------
\* Properties of interpret
\* ------------------------------------------------------------------------

sequentialKinds == {"contributor", "interpreter", "scorer"}

eligible(kind, idx) ==
    CASE kind = "interpreter" -> interpreters[idx].runWhen
      [] kind = "scorer" -> scorers[idx].runWhen
      [] OTHER -> TRUE

\* C6: recipe contributors, interpreters and scorers run one at a time in
\* registration order: never two in flight, the next one starts only after
\* the previous one has settled, and no scorer starts before the last
\* eligible interpreter has completed.
C6_StrictlySequential ==
    /\ Cardinality({q \in inFlight : q.kind \in sequentialKinds}) <= 1
    /\ \A q \in inFlight \cup settled :
            q.kind \in sequentialKinds =>
                \A j \in 1..(q.idx - 1) :
                    eligible(q.kind, j) => promise(q.kind, j) \in settled
    /\ \A q \in inFlight \cup settled :
            q.kind = "scorer" =>
                \A i \in 1..Len(interpreters) :
                    interpreters[i].runWhen => promise("interpreter", i) \in settled

C6_Witness ==
    /\ promise("scorer", 2) \in inFlight
    /\ promise("scorer", 1) \in settled
    /\ promise("interpreter", 1) \in settled
    /\ promise("interpreter", 2) \in settled
    /\ promise("contributor", 2) \in settled

\* C7: when interpreter B is registered after interpreter A and both are
\* eligible, everything A wrote during its enrich (phase slot, autofixes) is
\* in the Interpretation B's enrich is handed, so a B that stands down for a
\* slot already set does not write it: when B's enrich has resolved and no
\* later interpreter has started, the slot is as B found it.
C7_EarlierWritesVisible ==
    /\ \A a, b \in 1..Len(interpreters) :
            (a < b /\ interpreters[a].runWhen /\ started("interpreter", b)) =>
                \A w \in wrote[a] :
                    IF w \in SlotNames
                    THEN /\ isSet(enrichView[b][1].slots[w])
                         /\ enrichView[b][1].slots[w][1].by \in a..(b - 1)
                    ELSE w \in Range(enrichView[b][1].autofixes)
                                \cup Range(enrichView[b][1].inspections)
                                \cup Range(enrichView[b][1].messages)
    /\ \A b \in 1..Len(interpreters) :
            (interpreters[b].polite /\ promise("interpreter", b) \in settled
                /\ isSet(enrichView[b][1].slots[interpreters[b].slot[1]])) =>
                    /\ interpreters[b].slot[1] \notin wrote[b]
                    /\ cursor.interpreter = b =>
                            interp.slots[interpreters[b].slot[1]] =
                                enrichView[b][1].slots[interpreters[b].slot[1]]

C7_Witness ==
    /\ interpreters = <<toyDeployer, politeDeployer>>
    /\ "toy" \in DOMAIN analysis.elements
    /\ promise("interpreter", 2) \in settled
    /\ wrote[1] = {"deployGoals"}
    /\ enrichView[2][1].slots["deployGoals"] = Some([by |-> 1, run |-> 1])
    /\ interp.slots["deployGoals"] = Some([by |-> 1, run |-> 1])

\* C8: after interpret, chosenInterpreters is exactly the interpreters whose
\* runWhen held and whose enrich returned true, in registration order; an
\* interpreter that sets deployGoals when it finds the toy element is chosen,
\* with its goal set, exactly when the analysis has that element.
C8_ChosenInterpreters ==
    pc = "done" =>
        /\ interp.chosenInterpreters =
              SelectSeq([i \in 1..Len(interpreters) |-> i],
                        LAMBDA i : interpreters[i].runWhen /\ enrichReturned[i] = Some(TRUE))
        /\ \A i \in 1..Len(interpreters) :
              interpreters[i] = toyDeployer =>
                  /\ i \in Range(interp.chosenInterpreters)
                        <=> "toy" \in DOMAIN analysis.elements
                  /\ "toy" \in DOMAIN analysis.elements => isSet(interp.slots["deployGoals"])

C8_Witness ==
    /\ pc = "done"
    /\ interpreters = <<silentFixer, toyDeployer>>
    /\ "toy" \in DOMAIN analysis.elements
    /\ enrichReturned = <<Some(FALSE), Some(TRUE)>>
    /\ interp.chosenInterpreters = <<2>>
    /\ interp.slots["deployGoals"] = Some([by |-> 2, run |-> 1])

\* the interpreters whose enrich wrote w in this run
writersOf(w) == {k \in 1..Len(interpreters) : w \in wrote[k]}

\* C31: what enrich returns only decides membership in chosenInterpreters:
\* when interpret has returned, everything an eligible interpreter wrote is
\* in the Interpretation whether its enrich resolved to true or to false, and
\* a phase slot holds the goals of the last interpreter that set it, an
\* earlier one's being overwritten.
C31_MutationsKeptWhateverEnrichReturns ==
    pc = "done" =>
        /\ \A i \in 1..Len(interpreters) :
                i \in Range(interp.chosenInterpreters) <=> enrichReturned[i] = Some(TRUE)
        /\ \A i \in 1..Len(interpreters) : \A w \in wrote[i] :
                IF w \in SlotNames
                THEN interp.slots[w] = Some(goalsOf(lastOf(writersOf(w))))
                ELSE w \in Range(interp.autofixes) \cup Range(interp.inspections)
                            \cup Range(interp.messages)

C31_Witness ==
    /\ pc = "done"
    /\ interpreters = <<silentFixer, silentFixer>>
    /\ enrichReturned = <<Some(FALSE), Some(FALSE)>>
    /\ interp.chosenInterpreters = <<>>
    /\ wrote[1] = {"buildGoals", "lint-fix", "lint"}
    /\ interp.slots["buildGoals"] = Some(goalsOf(2))
    /\ interp.autofixes = <<"lint-fix", "lint-fix">>

\* ------------------------------------------------------------------------
\* performSeedAnalysis over the recipes contributors can return
\* ------------------------------------------------------------------------

snipContributor ==
    [ originator |-> "snip", optional |-> TRUE, rejects |-> FALSE,
      recipe |-> Some([parameters |-> <<>>, transforms |-> <<anonymous("snip")>>]) ]

\* the contributors of the seed-analysis tests, one that returns nothing, and
\* contributors proposing the parameter "thing"
SeedContributorChoices ==
    { [originator |-> "none", optional |-> FALSE, rejects |-> FALSE, recipe |-> None],
      snipContributor,
      AlwaysTRC,
      [ originator |-> "thing", optional |-> FALSE, rejects |-> FALSE,
        recipe |-> Some([ parameters |-> <<"thing", "foo">>,
                          transforms |-> <<[fn |-> "rename", name |-> "rename"]>> ]) ],
      [ originator |-> "twice", optional |-> TRUE, rejects |-> FALSE,
        recipe |-> Some([parameters |-> <<"thing", "thing">>, transforms |-> <<>>]) ] }

InitSeed ==
    /\ GoalsIdle
    /\ interpreters = <<>>
    /\ scorers = <<>>
    /\ noInterpreterState
    /\ scannerRegistrations \in InterpretScanners
    /\ contributorRegistrations \in ListsOf(SeedContributorChoices, MaxContributors)
    /\ call \in {c \in Calls : c.fn = "analyze" /\ c.project}
    /\ pc = "scanning"
    /\ inFlight = {}
    /\ settled = {}
    /\ cursor = noneVisited
    /\ analysis = newAnalysis(call.full)
    /\ transformRecipes = <<>>
    /\ analysisSoFar = [i \in 1..MaxScanners |-> unread]

SpecSeed == InitSeed /\ [][NextAnalyze]_vars

\* ------------------------------------------------------------------------
\* Properties of performSeedAnalysis
\* ------------------------------------------------------------------------

\* the contributors that returned a recipe, in registration order
returning ==
    SelectSeq([k \in 1..Len(contributorRegistrations) |-> k],
              LAMBDA k : isSet(contributorRegistrations[k].recipe))

rawRecipe(k) == contributorRegistrations[returning[k]].recipe[1]

seedReturned == pc = "analyzed" /\ isSet(analysis.seedAnalysis)

RECURSIVE allParameters(_)
allParameters(recipes) ==
    IF recipes = <<>> THEN <<>>
    ELSE allParameters(SubSeq(recipes, 1, Len(recipes) - 1))
            \o recipes[Len(recipes)].recipe.parameters

\* C11: in the SeedAnalysis returned, no parameter name appears more than
\* once across the parameters of all transformRecipes.
C11_ParameterNamesUnique ==
    seedReturned =>
        LET ps == allParameters(analysis.seedAnalysis[1])
        IN  \A k, l \in 1..Len(ps) : k # l => ps[k] # ps[l]

\* C12: transformRecipes has one entry per contributor that returned a
\* recipe, in registration order, and a parameter proposed by several
\* contributors is kept by the earliest of them and removed from every
\* later recipe.
C12_FirstRegistrantWins ==
    seedReturned =>
        LET recipes == analysis.seedAnalysis[1]
        IN  /\ Len(recipes) = Len(returning)
            /\ \A k \in 1..Len(recipes) :
                  /\ recipes[k].originator = contributorRegistrations[returning[k]].originator
                  /\ recipes[k].recipe.parameters =
                        SelectSeq(rawRecipe(k).parameters,
                            LAMBDA q : \A j \in 1..(k - 1) : q \notin Range(rawRecipe(j).parameters))

C12_Witness ==
    /\ seedReturned
    /\ Len(returning) = 2
    /\ "thing" \in Range(rawRecipe(1).parameters) \cap Range(rawRecipe(2).parameters)
    /\ "thing" \in Range(analysis.seedAnalysis[1][1].recipe.parameters)
    /\ "thing" \notin Range(analysis.seedAnalysis[1][2].recipe.parameters)

\* C13: every accepted recipe keeps the transforms its contributor returned.
C13_TransformsKept ==
    seedReturned =>
        \A k \in 1..Len(analysis.seedAnalysis[1]) :
            k <= Len(returning) =>
                analysis.seedAnalysis[1][k].recipe.transforms = rawRecipe(k).transforms

\* ------------------------------------------------------------------------
\* The analyzer with full enrichment: analyze / enrichToFullAnalysis
\* ------------------------------------------------------------------------

\* return analysis, when options.full is not set
ReturnPlainAnalysis ==
    /\ pc = "scanning"
    /\ merged
    /\ ~fullAsked
    /\ pc' = "analyzed"
    /\ cursor' = afterMerge(cursor)
    /\ UNCHANGED <<goalVars, scoringVars, supportVars, registrationVars, faultVars, interpVars, inFlight, settled,
                   analysis, transformRecipes, analysisSoFar>>

gitStatusFatal == FALSE

\* catch (err) { // Don't fail on this }
gitStatusCaught == TRUE

\* enrichToFullAnalysis up to performSeedAnalysis: gitStatus is read when the
\* project is a git project, and a failure to read it is swallowed
EnrichToFullAnalysis ==
    /\ pc = "scanning"
    /\ merged
    /\ fullAsked
    /\ \E outcome \in {"clean", "rejects", "notGit"} :
            IF outcome = "rejects" /\ ~gitStatusCaught
            THEN /\ pc' = "rejected"
                 /\ rejection' = Some(promise("gitStatus", 0))
                 /\ UNCHANGED <<analysis, swallowed>>
            ELSE /\ pc' = "seed"
                 /\ analysis' = [analysis EXCEPT !.gitStatus =
                                    IF outcome = "clean" THEN Some("clean") ELSE None]
                 /\ swallowed' = IF outcome = "rejects"
                                 THEN swallowed \cup {"gitStatus"} ELSE swallowed
                 /\ UNCHANGED rejection
    /\ cursor' = afterMerge(cursor)
    /\ UNCHANGED <<goalVars, scoringVars, supportVars, registrationVars, interpVars, inFlight, settled,
                   transformRecipes, analysisSoFar>>

\* analysis.seedAnalysis = await performSeedAnalysis(...), then
\* this.runInterpretation(analysis, sdmContext, options) builds its Interpretation
EnrichRunInterpretation ==
    /\ seedAnalysed
    /\ analysis' = [analysis EXCEPT !.seedAnalysis = Some(transformRecipes)]
    /\ pc' = "interpreting"
    /\ nested' = TRUE
    /\ interp' = newInterpretation
    /\ run' = run + 1
    /\ cursor' = [cursor EXCEPT !.interpreter = 0, !.scorer = 0]
    /\ settled' = {q \in settled : q.kind \notin {"interpreter", "scorer"}}
    /\ wrote' = [i \in 1..MaxInterpreters |-> {}]
    /\ enrichReturned' = [i \in 1..MaxInterpreters |-> None]
    /\ UNCHANGED <<goalVars, scoringVars, supportVars, registrationVars, faultVars, inFlight, transformRecipes, analysisSoFar,
                   enrichView, scoreView, enrichCount, scoreCount>>

phaseStatusAllSet(i) == [n \in SlotNames |-> TRUE]

\* analysis.phaseStatus = { buildGoals: !!interpretation.buildGoals, ... }
phaseStatusOf(i) == [n \in SlotNames |-> isSet(i.slots[n])]

\* the rest of enrichToFullAnalysis: scores, messages, inspections, phaseStatus
FinishEnrichment ==
    /\ pc = "interpreting"
    /\ scored
    /\ nested
    /\ analysis' = [analysis EXCEPT
            !.scores = Some(interp.scores),
            !.messages = @ \o interp.messages,
            !.inspections = Some(Range(interp.inspections)),
            !.phaseStatus = Some(phaseStatusOf(interp))]
    /\ nested' = FALSE
    /\ pc' = "analyzed"
    /\ UNCHANGED <<goalVars, scoringVars, supportVars, registrationVars, faultVars, inFlight, settled, cursor, transformRecipes,
                   analysisSoFar, interp, run, enrichView, scoreView, wrote, enrichReturned,
                   enrichCount, scoreCount>>

NextFull ==
    \/ \E i \in 1..MaxScanners : StartScanner(i)
    \/ \E i \in 1..MaxScanners : ResolveScanner(i)
    \/ MergeScanned
    \/ ReturnPlainAnalysis
    \/ EnrichToFullAnalysis
    \/ \E i \in 1..MaxContributors : StartContributor(i)
    \/ \E i \in 1..MaxContributors : ResolveContributorOfFull(i)
    \/ EnrichRunInterpretation
    \/ \E i \in 1..MaxInterpreters : VisitInterpreter(i)
    \/ \E i \in 1..MaxInterpreters : ResolveEnrich(i)
    \/ \E j \in 1..MaxScorers : VisitScorer(j)
    \/ \E j \in 1..MaxScorers : ResolveScorer(j)
    \/ FinishEnrichment
    \/ BeginInterpretation
    \/ ReturnInterpretation

SpecFull == InitInterpret /\ [][NextFull]_vars

\* ------------------------------------------------------------------------
\* Properties of interpret on the analyzer with full enrichment
\* ------------------------------------------------------------------------

\* a value in a slot or score of a view was written in the run that handed it
writtenInThisRun(view) ==
    /\ \A n \in SlotNames : isSet(view.slots[n]) => view.slots[n][1].run = run
    /\ \A n \in DOMAIN view.scores : view.scores[n].run = run

runsOfCall == IF call.project /\ call.full THEN 2 ELSE 1

\* C9 (per run): one call of interpret invokes each eligible interpreter and
\* each eligible scorer once in every runInterpretation it makes, which is
\* twice when a project is interpreted with options.full, and every
\* invocation is handed an Interpretation holding nothing written during an
\* earlier run.
C9_InvokedOncePerRun ==
    /\ pc = "done" =>
        /\ \A i \in 1..Len(interpreters) :
              enrichCount[i] = IF interpreters[i].runWhen THEN runsOfCall ELSE 0
        /\ \A j \in 1..Len(scorers) :
              scoreCount[j] = IF scorers[j].runWhen THEN runsOfCall ELSE 0
    /\ \A i \in 1..Len(interpreters) :
            started("interpreter", i) => writtenInThisRun(enrichView[i][1])
    /\ \A j \in 1..Len(scorers) :
            started("scorer", j) => writtenInThisRun(scoreView[j][1])

C9_Witness ==
    /\ pc = "done"
    /\ call.project /\ call.full
    /\ interpreters = <<toyDeployer, politeDeployer>>
    /\ scorers[1].runWhen
    /\ enrichCount = <<2, 2>>
    /\ scoreCount[1] = 2
    /\ enrichView[2][1].slots["deployGoals"] = Some([by |-> 1, run |-> 2])

\* the analyze made for a project has returned its Analysis
analysed == call.project /\ pc = "analyzed"

\* what the eligible interpreters wrote in the run made for the analysis
writtenByInterpreters ==
    UNION {wrote[i] : i \in {k \in 1..Len(interpreters) : interpreters[k].runWhen}}

C9_InvokedExactlyOnce ==
    pc = "done" =>
        /\ \A i \in 1..Len(interpreters) : interpreters[i].runWhen => enrichCount[i] = 1
        /\ \A j \in 1..Len(scorers) : scorers[j].runWhen => scoreCount[j] = 1

\* ------------------------------------------------------------------------
\* Rejections: a scanner, contributor, interpreter or scorer throws
\* ------------------------------------------------------------------------

brokenScanner == [toyScanner EXCEPT !.rejects = TRUE]

brokenContributor == [AlwaysTRC EXCEPT !.originator = "broken", !.rejects = TRUE]

brokenInterpreter == [toyDeployer EXCEPT !.rejects = TRUE]

brokenScorer == [runWhen |-> TRUE, rejects |-> TRUE, name |-> "thing", score |-> 4]

\* the await throws: nothing after it in the async function runs and the
\* promise of the enclosing call is rejected
throw(q) ==
    /\ q \in inFlight
    /\ ~fulfils(q)
    /\ inFlight' = inFlight \ {q}
    /\ rejection' = Some(q)
    /\ pc' = "rejected"
    /\ UNCHANGED <<goalVars, scoringVars, supportVars, registrationVars, interpVars, settled, cursor, analysis,
                   transformRecipes, analysisSoFar, swallowed>>

\* Promise.all rejects with the first rejection, once .map has started every
\* eligible scanner
RejectScanner(i) ==
    /\ pc = "scanning"
    /\ \A j \in eligibleScanners : started("scanner", j)
    /\ throw(promise("scanner", i))

RejectContributor(i) ==
    /\ pc = "seed"
    /\ throw(promise("contributor", i))

RejectEnrich(i) ==
    /\ pc = "interpreting"
    /\ throw(promise("interpreter", i))

RejectScorer(j) ==
    /\ pc = "interpreting"
    /\ throw(promise("scorer", j))

FaultyScanners ==
    {<<toyScanner, toy2Scanner>>, <<toyScanner, brokenScanner>>, <<brokenScanner, toyScanner>>}

FaultyContributors == {<<AlwaysTRC, snipContributor>>, <<brokenContributor, AlwaysTRC>>}

FaultyInterpreterChoices ==
    {toyDeployer, brokenInterpreter, [brokenInterpreter EXCEPT !.runWhen = FALSE]}

FaultyScorerChoices == {brokenScorer, [brokenScorer EXCEPT !.rejects = FALSE]}

InitFaulty ==
    /\ GoalsIdle
    /\ scannerRegistrations \in FaultyScanners
    /\ contributorRegistrations \in FaultyContributors
    /\ interpreters \in ListsOf(FaultyInterpreterChoices, MaxInterpreters)
    /\ scorers \in ListsOf(FaultyScorerChoices, MaxScorers)
    /\ call \in {c \in Calls : c.fn = "interpret"}
    /\ pc = IF call.project THEN "scanning" ELSE "analyzed"
    /\ inFlight = {}
    /\ settled = {}
    /\ cursor = noneVisited
    /\ analysis = givenAnalysis(call, scannerRegistrations)
    /\ transformRecipes = <<>>
    /\ analysisSoFar = [i \in 1..MaxScanners |-> unread]
    /\ noInterpreterState

Rejects ==
    \/ \E i \in 1..MaxScanners : RejectScanner(i)
    \/ \E i \in 1..MaxContributors : RejectContributor(i)
    \/ \E i \in 1..MaxInterpreters : RejectEnrich(i)
    \/ \E j \in 1..MaxScorers : RejectScorer(j)

NextFaulty == NextInterpret \/ Rejects

SpecFaulty == InitFaulty /\ [][NextFaulty]_vars

\* ------------------------------------------------------------------------
\* Properties of a call in which something rejects
\* ------------------------------------------------------------------------

noneStarted(kind) == \A q \in inFlight \cup settled : q.kind # kind

noneStartedAfter(q) == \A r \in inFlight \cup settled : r.kind = q.kind => r.idx <= q.idx

\* C16: if an eligible scanner, contributor, interpreter or scorer rejects,
\* the call rejects without a result and nothing later in the pipeline has
\* been started: after a scanner rejection no merge and no seed analysis,
\* after an interpreter rejection no later interpreter and no scorer; a call
\* that returns a result has awaited no rejecting promise.
C16_RejectionIsFatal ==
    /\ isSet(rejection) <=> pc = "rejected"
    /\ pc \in {"analyzed", "interpreting", "done"} =>
            \A q \in settled : ~registrationOf(q).rejects
    /\ pc = "done" =>
            \A i \in 1..Len(interpreters) : interpreters[i].runWhen => ~interpreters[i].rejects
    /\ isSet(rejection) =>
            LET q == rejection[1]
            IN  /\ registrationOf(q).rejects
                /\ q.kind \in sequentialKinds => noneStartedAfter(q)
                /\ q.kind = "scanner" =>
                      /\ cursor.merge = 0
                      /\ DOMAIN analysis.elements = {}
                      /\ noneStarted("contributor")
                /\ q.kind \in {"scanner", "contributor"} =>
                      /\ ~isSet(analysis.seedAnalysis)
                      /\ noneStarted("interpreter")
                /\ q.kind \in {"scanner", "contributor", "interpreter"} => noneStarted("scorer")

C16_Witness ==
    /\ pc = "rejected"
    /\ rejection = Some(promise("interpreter", 1))
    /\ interpreters[2].runWhen
    /\ scorers[1] = [brokenScorer EXCEPT !.rejects = FALSE]
    /\ call.project /\ call.full
    /\ isSet(analysis.seedAnalysis)

\* scorers of two names, some of them not eligible
NamedScorerChoices ==
    ScorerChoices \cup
    { [runWhen |-> TRUE, rejects |-> FALSE, name |-> "other", score |-> 3],
      [runWhen |-> FALSE, rejects |-> FALSE, name |-> "other", score |-> 5] }

InitScores ==
    /\ GoalsIdle
    /\ scannerRegistrations \in InterpretScanners
    /\ contributorRegistrations \in InterpretContributors
    /\ interpreters \in ListsOf({toyDeployer, silentFixer}, MaxInterpreters)
    /\ scorers \in ListsOf(NamedScorerChoices, MaxScorers)
    /\ call \in {c \in Calls : c.fn = "interpret"}
    /\ pc = IF call.project THEN "scanning" ELSE "analyzed"
    /\ inFlight = {}
    /\ settled = {}
    /\ cursor = noneVisited
    /\ analysis = givenAnalysis(call, scannerRegistrations)
    /\ transformRecipes = <<>>
    /\ analysisSoFar = [i \in 1..MaxScanners |-> unread]
    /\ noInterpreterState

SpecScores == InitScores /\ [][NextInterpret]_vars

eligibleScorers == {j \in 1..Len(scorers) : scorers[j].runWhen}

scorersOf(name) == {j \in eligibleScorers : scorers[j].name = name}

\* C18: when interpret has returned, interpretation.scores has one entry for
\* each distinct score name returned by an eligible scorer and no other; of
\* two scorers returning the same name the later registered one's score is
\* the entry; a scorer whose runWhen is false contributes nothing.
C18_ScoresByNameLastWins ==
    pc = "done" =>
        /\ DOMAIN interp.scores = {scorers[j].name : j \in eligibleScorers}
        /\ \A name \in DOMAIN interp.scores :
                /\ interp.scores[name].name = name
                /\ interp.scores[name].by = lastOf(scorersOf(name))
                /\ interp.scores[name].score = scorers[lastOf(scorersOf(name))].score
        /\ \A j \in 1..Len(scorers) : ~scorers[j].runWhen => scoreCount[j] = 0

C18_Witness ==
    /\ pc = "done"
    /\ Len(scorers) >= 2
    /\ scorers[1].runWhen /\ scorers[2].runWhen
    /\ scorers[1].name = scorers[2].name
    /\ scorers[1].score = 4 /\ scorers[2].score = 2
    /\ interp.scores["thing"].score = 2

\* ------------------------------------------------------------------------
\* scoring.ts: weightedCompositeScore

\* export type Weighting = 1 | 2 | 3
Weighting == 1..3

\* export type FiveStar = 0 | 1 | 2 | 3 | 4 | 5
FiveStar == 0..5

ScoreNames == {"dog", "cat"}

\* Object.getOwnPropertyNames(i.scores): the names, one after another
RECURSIVE getOwnPropertyNames(_)
getOwnPropertyNames(scores) ==
    IF DOMAIN scores = {} THEN <<>>
    ELSE <<CHOOSE k \in DOMAIN scores : TRUE>> \o
         getOwnPropertyNames([n \in DOMAIN scores \ {CHOOSE k \in DOMAIN scores : TRUE}
                                |-> scores[n]])

\* every score weighs the same
weightingOne(given, name) == 1

\* weightings[score.name] || 1: an absent or zero weighting counts as 1
weightingOrOne(given, name) ==
    IF name \in DOMAIN given /\ given[name] # 0 THEN given[name] ELSE 1

\* only the scores are added up
addUndivided(acc, score, weighting) ==
    [acc EXCEPT !.compositeScore = @ + score.score * weighting]

\* compositeScore += score.score * weighting; divideBy += weighting
addWeighted(acc, score, weighting) ==
    [ compositeScore |-> acc.compositeScore + score.score * weighting,
      divideBy |-> acc.divideBy + weighting ]

\* for (const score of scores) { ... }
RECURSIVE weighScores(_, _, _, _)
weighScores(scores, keys, given, acc) ==
    IF keys = <<>> THEN acc
    ELSE weighScores(scores, Tail(keys), given,
                     addWeighted(acc, scores[Head(keys)],
                                 weightingOrOne(given, scores[Head(keys)].name)))

\* undefined without scores, otherwise compositeScore / divideBy, kept as the
\* two numbers the quotient is taken of
weightedCompositeScore(i, given) ==
    IF Len(getOwnPropertyNames(i.scores)) = 0 THEN None
    ELSE Some(weighScores(i.scores, getOwnPropertyNames(i.scores), given,
                          [compositeScore |-> 0, divideBy |-> 0]))

\* the Scores and ScoreWeightings weightedCompositeScore is exercised with
ScoresChoices ==
    UNION {[keys -> FiveStar] : keys \in SUBSET ScoreNames}

WeightingsChoices ==
    UNION {[keys -> Weighting] : keys \in SUBSET ScoreNames}

scoresOf(stars) == [n \in DOMAIN stars |-> [name |-> n, score |-> stars[n]]]

InitScoring ==
    /\ GoalsIdle
    /\ interpreters = <<>>
    /\ scorers = <<>>
    /\ scannerRegistrations = <<>>
    /\ contributorRegistrations = <<>>
    /\ call = [fn |-> "weightedCompositeScore", project |-> FALSE, full |-> FALSE]
    /\ pc = "scoring"
    /\ inFlight = {}
    /\ settled = {}
    /\ cursor = noneVisited
    /\ analysis = newAnalysis(FALSE)
    /\ transformRecipes = <<>>
    /\ analysisSoFar = <<>>
    /\ rejection = None
    /\ swallowed = {}
    /\ enrichView = [i \in 1..MaxInterpreters |-> None]
    /\ scoreView = [i \in 1..MaxScorers |-> None]
    /\ wrote = [i \in 1..MaxInterpreters |-> {}]
    /\ enrichReturned = [i \in 1..MaxInterpreters |-> None]
    /\ enrichCount = [i \in 1..MaxInterpreters |-> 0]
    /\ scoreCount = [i \in 1..MaxScorers |-> 0]
    /\ run = 0
    /\ nested = FALSE
    /\ \E stars \in ScoresChoices : interp = [noInterpretation EXCEPT !.scores = scoresOf(stars)]
    /\ weightings \in WeightingsChoices
    /\ composite = notScored
    /\ supportIdle

\* const score = weightedCompositeScore(i, weightings)
ComposeScore ==
    /\ pc = "scoring"
    /\ ~composite.returned
    /\ composite' = [returned |-> TRUE, value |-> weightedCompositeScore(interp, weightings)]
    /\ pc' = "scored"
    /\ UNCHANGED <<goalVars, supportVars, weightings, registrationVars, faultVars, interpVars, inFlight,
                   settled, cursor, analysis, transformRecipes, analysisSoFar>>

NextScoring == ComposeScore

SpecScoring == InitScoring /\ [][NextScoring]_vars

\* the weighting the documentation gives a name: the one given, 1 otherwise
documentedWeighting(name) ==
    IF name \in DOMAIN weightings THEN weightings[name] ELSE 1

RECURSIVE totalScore(_)
totalScore(keys) ==
    IF keys = {} THEN 0
    ELSE interp.scores[CHOOSE n \in keys : TRUE].score
            * documentedWeighting(CHOOSE n \in keys : TRUE)
         + totalScore(keys \ {CHOOSE n \in keys : TRUE})

RECURSIVE totalWeighting(_)
totalWeighting(keys) ==
    IF keys = {} THEN 0
    ELSE documentedWeighting(CHOOSE n \in keys : TRUE)
         + totalWeighting(keys \ {CHOOSE n \in keys : TRUE})

\* the quotient a / b is the quotient c / d
sameQuotient(a, b, c, d) == b # 0 /\ d # 0 /\ a * d = c * b

returnedQuotient(c, d) ==
    /\ isSet(composite.value)
    /\ sameQuotient(composite.value[1].compositeScore, composite.value[1].divideBy, c, d)

scoresAre(stars) == interp.scores = scoresOf(stars)

\* C19: weightedCompositeScore returns undefined when the interpretation has
\* no scores, and otherwise the sum of score times weighting over all scores
\* divided by the sum of the weightings, a score without a weighting weighing
\* 1: one score of 5 gives 5, scores 5 and 3 give 4, and 13/3 when the first
\* weighs 2.
C19_WeightedMean ==
    composite.returned =>
        /\ DOMAIN interp.scores = {} <=> composite.value = None
        /\ DOMAIN interp.scores # {} =>
                returnedQuotient(totalScore(DOMAIN interp.scores),
                                 totalWeighting(DOMAIN interp.scores))
        /\ (scoresAre("dog" :> 5) /\ weightings = emptyMap) => returnedQuotient(5, 1)
        /\ (scoresAre(("dog" :> 5) @@ ("cat" :> 3)) /\ weightings = emptyMap) =>
                returnedQuotient(4, 1)
        /\ (scoresAre(("dog" :> 5) @@ ("cat" :> 3)) /\ weightings = ("dog" :> 2)) =>
                returnedQuotient(13, 3)

C19_Witness ==
    /\ composite.returned
    /\ scoresAre(("dog" :> 5) @@ ("cat" :> 3))
    /\ weightings = ("dog" :> 2)
    /\ composite.value = Some([compositeScore |-> 13, divideBy |-> 3])

\* C20: for scores that are not empty, each from 0 to 5 with a weighting of 1,
\* 2 or 3, the composite is between 0 and 5 (0 <= sum of score times
\* weighting <= 5 times the sum of the weightings) and the divisor is never 0.
C20_CompositeWithinFiveStars ==
    (composite.returned /\ DOMAIN interp.scores # {}) =>
        /\ isSet(composite.value)
        /\ composite.value[1].divideBy > 0
        /\ 0 <= composite.value[1].compositeScore
        /\ composite.value[1].compositeScore <= 5 * composite.value[1].divideBy

C20_Witness ==
    /\ composite.returned
    /\ scoresAre(("dog" :> 5) @@ ("cat" :> 5))
    /\ weightings = ("dog" :> 3) @@ ("cat" :> 3)
    /\ composite.value = Some([compositeScore |-> 30, divideBy |-> 6])

NextFaultyFull == NextFull \/ Rejects

SpecFaultyFull == InitFaulty /\ [][NextFaultyFull]_vars

\* C17: on a full analysis a failure to read the version-control status does
\* not fail analyze: gitStatus is left absent and seed analysis, scores,
\* inspections and phaseStatus are still produced; no other failure is
\* swallowed.
C17_GitStatusFailureSwallowed ==
    /\ swallowed \subseteq {"gitStatus"}
    /\ isSet(rejection) => rejection[1].kind # "gitStatus"
    /\ "gitStatus" \in swallowed => ~isSet(analysis.gitStatus)
    /\ ("gitStatus" \in swallowed /\ analysed) =>
            /\ isSet(analysis.seedAnalysis)
            /\ isSet(analysis.scores)
            /\ isSet(analysis.inspections)
            /\ isSet(analysis.phaseStatus)
    /\ pc \in {"analyzed", "done"} => \A q \in settled : ~registrationOf(q).rejects

C17_Witness ==
    /\ analysed
    /\ call.full
    /\ swallowed = {"gitStatus"}
    /\ ~isSet(analysis.gitStatus)
    /\ Len(analysis.seedAnalysis[1]) = 2
    /\ analysis.phaseStatus = Some([buildGoals |-> FALSE, deployGoals |-> TRUE])

\* ------------------------------------------------------------------------
\* projectAnalysisUtils.ts: isUsableAsSeed

\* no analyzer is at work: nothing registered, nothing in flight
nothingRegistered ==
    /\ interpreters = <<>>
    /\ scorers = <<>>
    /\ scannerRegistrations = <<>>
    /\ contributorRegistrations = <<>>
    /\ inFlight = {}
    /\ settled = {}
    /\ cursor = noneVisited
    /\ transformRecipes = <<>>
    /\ analysisSoFar = <<>>
    /\ rejection = None
    /\ swallowed = {}
    /\ enrichView = [i \in 1..MaxInterpreters |-> None]
    /\ scoreView = [i \in 1..MaxScorers |-> None]
    /\ wrote = [i \in 1..MaxInterpreters |-> {}]
    /\ enrichReturned = [i \in 1..MaxInterpreters |-> None]
    /\ enrichCount = [i \in 1..MaxInterpreters |-> 0]
    /\ scoreCount = [i \in 1..MaxScorers |-> 0]
    /\ run = 0
    /\ nested = FALSE

\* _.flatten(lists)
RECURSIVE flatten(_)
flatten(lists) ==
    IF lists = <<>> THEN <<>> ELSE Head(lists) \o flatten(Tail(lists))

parametersOf(recipes) == [k \in 1..Len(recipes) |-> recipes[k].recipe.parameters]

\* every recipe counts
everyRecipe(tr) == TRUE

\* tr => tr.optional
isOptional(tr) == tr.optional

isUsableAsSeed(fpa) ==
    IF ~isSet(fpa.seedAnalysis) THEN FALSE
    ELSE Len(flatten(parametersOf(SelectSeq(fpa.seedAnalysis[1], isOptional)))) > 0

\* the TransformRecipeRequests isUsableAsSeed is exercised with
SeedRecipeChoices ==
    [ originator : {"foo"}, optional : BOOLEAN,
      recipe : [ parameters : {<<>>, <<"thing">>, <<"foo">>, <<"thing", "foo">>},
                 transforms : {<<>>} ] ]

UpTo(choices, n) == UNION {[1..k -> choices] : k \in 0..n}

InitUsable ==
    /\ GoalsIdle
    /\ nothingRegistered
    /\ call = [fn |-> "isUsableAsSeed", project |-> FALSE, full |-> TRUE]
    /\ pc = "asking"
    /\ \E seed \in {None} \cup {Some(rs) : rs \in UpTo(SeedRecipeChoices, MaxContributors)} :
            analysis = [newAnalysis(TRUE) EXCEPT !.seedAnalysis = seed]
    /\ interp = noInterpretation
    /\ weightings = emptyMap
    /\ composite = notScored
    /\ usable = notAsked
    /\ utilitiesIdle
    /\ conditions = <<>>
    /\ sdmContext = [flag |-> FALSE]
    /\ callsMade = <<>>

\* isUsableAsSeed(analysis)
CallIsUsableAsSeed ==
    /\ pc = "asking"
    /\ ~usable.returned
    /\ usable' = [returned |-> TRUE, value |-> isUsableAsSeed(analysis)]
    /\ pc' = "asked"
    /\ UNCHANGED <<goalVars, scoringVars, conditions, sdmContext, callsMade, pushVars, deliveryVars, messageVars,
                   registrationVars, faultVars, interpVars, inFlight,
                   settled, cursor, analysis, transformRecipes, analysisSoFar>>

NextUsable == CallIsUsableAsSeed

SpecUsable == InitUsable /\ [][NextUsable]_vars

seedRecipes == IF isSet(analysis.seedAnalysis) THEN analysis.seedAnalysis[1] ELSE <<>>

C22_UsableWithAnyParameter ==
    (usable.returned /\ \E k \in 1..Len(seedRecipes) : seedRecipes[k].recipe.parameters # <<>>)
        => usable.value

\* ------------------------------------------------------------------------
\* Conditional registrations over several calls of one analyzer

MaxAnalyzerCalls == 2

\* a registration made without a predicate, or with one that reads
\* options.full, or with one that reads a feature flag of the SdmContext
RunConditions == {"none", "full", "flag"}

\* runWhen(options, sdmContext); () => true for a registration without predicate
runWhenOf(condition, options, ctx) ==
    CASE condition = "none" -> TRUE
      [] condition = "full" -> options.full
      [] condition = "flag" -> ctx.flag

\* the outcome of an earlier evaluation is used again
evaluatedOnce(reg, condition, options, ctx) == reg

\* s.runWhen(options, sdmContext), evaluated in the call under way
evaluated(reg, condition, options, ctx) ==
    [reg EXCEPT !.runWhen = runWhenOf(condition, options, ctx)]

evaluatedAll(regs, conds, options, ctx) ==
    [i \in 1..Len(regs) |-> evaluated(regs[i], conds[i], options, ctx)]

ConditionalScorers ==
    << [runWhen |-> TRUE, rejects |-> FALSE, name |-> "thing", score |-> 4],
       [runWhen |-> TRUE, rejects |-> FALSE, name |-> "thing", score |-> 2] >>

InitCalls ==
    /\ GoalsIdle
    /\ \E cs \in [1..2 -> RunConditions] :
            conditions = [scanner |-> cs, interpreter |-> cs, scorer |-> cs]
    /\ sdmContext \in [flag : BOOLEAN]
    /\ call \in {c \in Calls : c.fn = "interpret" /\ c.project}
    /\ callsMade = <<[full |-> call.full, flag |-> sdmContext.flag]>>
    /\ scannerRegistrations =
            evaluatedAll(<<toy2Scanner, toyScanner>>, conditions.scanner, call, sdmContext)
    /\ contributorRegistrations \in InterpretContributors
    /\ interpreters =
            evaluatedAll(<<toyDeployer, silentFixer>>, conditions.interpreter, call, sdmContext)
    /\ scorers = evaluatedAll(ConditionalScorers, conditions.scorer, call, sdmContext)
    /\ pc = "scanning"
    /\ inFlight = {}
    /\ settled = {}
    /\ cursor = noneVisited
    /\ analysis = newAnalysis(call.full)
    /\ transformRecipes = <<>>
    /\ analysisSoFar = [i \in 1..MaxScanners |-> unread]
    /\ usable = notAsked
    /\ utilitiesIdle
    /\ weightings = emptyMap
    /\ composite = notScored
    /\ rejection = None
    /\ swallowed = {}
    /\ enrichView = [i \in 1..MaxInterpreters |-> None]
    /\ scoreView = [i \in 1..MaxScorers |-> None]
    /\ wrote = [i \in 1..MaxInterpreters |-> {}]
    /\ enrichReturned = [i \in 1..MaxInterpreters |-> None]
    /\ enrichCount = [i \in 1..MaxInterpreters |-> 0]
    /\ scoreCount = [i \in 1..MaxScorers |-> 0]
    /\ interp = noInterpretation
    /\ run = 0
    /\ nested = FALSE

\* the analyzer built once is called again: interpret(p, sdmContext, options)
CallAgain ==
    /\ pc = "done"
    /\ Len(callsMade) < MaxAnalyzerCalls
    /\ \E full \in BOOLEAN, flag \in BOOLEAN :
        /\ call' = [fn |-> "interpret", project |-> TRUE, full |-> full]
        /\ sdmContext' = [flag |-> flag]
        /\ callsMade' = Append(callsMade, [full |-> full, flag |-> flag])
        /\ scannerRegistrations' =
                evaluatedAll(scannerRegistrations, conditions.scanner, call', sdmContext')
        /\ interpreters' = evaluatedAll(interpreters, conditions.interpreter, call', sdmContext')
        /\ scorers' = evaluatedAll(scorers, conditions.scorer, call', sdmContext')
        /\ analysis' = newAnalysis(full)
    /\ pc' = "scanning"
    /\ inFlight' = {}
    /\ settled' = {}
    /\ cursor' = noneVisited
    /\ transformRecipes' = <<>>
    /\ analysisSoFar' = [i \in 1..MaxScanners |-> unread]
    /\ enrichView' = [i \in 1..MaxInterpreters |-> None]
    /\ scoreView' = [i \in 1..MaxScorers |-> None]
    /\ wrote' = [i \in 1..MaxInterpreters |-> {}]
    /\ enrichReturned' = [i \in 1..MaxInterpreters |-> None]
    /\ enrichCount' = [i \in 1..MaxInterpreters |-> 0]
    /\ scoreCount' = [i \in 1..MaxScorers |-> 0]
    /\ interp' = noInterpretation
    /\ run' = 0
    /\ UNCHANGED <<goalVars, scoringVars, faultVars, usable, conditions, pushVars, deliveryVars, messageVars,
                   contributorRegistrations, nested>>

NextCalls == NextInterpret \/ CallAgain

SpecCalls == InitCalls /\ [][NextCalls]_vars

thisCall == callsMade[Len(callsMade)]

\* C23: a scanner, interpreter or scorer registered without a predicate runs
\* on every call; a conditional registration's runWhen is evaluated on every
\* call with that call's options and context, and in each call the action is
\* invoked if and only if runWhen is true in that call.
C23_RunWhenEvaluatedPerCall ==
    pc = "done" =>
        /\ \A i \in 1..Len(scannerRegistrations) :
                promise("scanner", i) \in settled
                    <=> runWhenOf(conditions.scanner[i], thisCall, thisCall)
        /\ \A i \in 1..Len(interpreters) :
                enrichCount[i] > 0 <=> runWhenOf(conditions.interpreter[i], thisCall, thisCall)
        /\ \A j \in 1..Len(scorers) :
                scoreCount[j] > 0 <=> runWhenOf(conditions.scorer[j], thisCall, thisCall)

C23_Witness ==
    /\ pc = "done"
    /\ Len(callsMade) = 2
    /\ callsMade[1].full /\ ~callsMade[2].full
    /\ ~callsMade[1].flag /\ callsMade[2].flag
    /\ conditions.scanner = <<"full", "flag">>
    /\ promise("scanner", 1) \notin settled
    /\ promise("scanner", 2) \in settled
    /\ enrichCount = [i \in 1..MaxInterpreters |-> IF i = 2 THEN 1 ELSE 0]
    /\ scoreCount = [j \in 1..MaxScorers |-> IF j = 2 THEN 1 ELSE 0]

\* ------------------------------------------------------------------------
\* withStack: a stack's condition and the registrations of the stack

\* every registration keeps the condition it came with
ownConditionOnly(own, stackCondition) == own

\* isConditionalRegistration(s) ? s : runOnCondition(s, stackSupport.condition);
\* runOnCondition without a condition gives () => true
conditionalize(own, stackCondition) == IF own # "none" THEN own ELSE stackCondition

conditionalizeAll(owns, stackCondition) ==
    [i \in 1..Len(owns) |-> conditionalize(owns[i], stackCondition)]

\* withStack(stackSupport): scanners, interpreters and scorers are
\* conditionalized, the transform recipe contributors are registered as given
withStack(stack) ==
    [ scanner |-> conditionalizeAll(stack.own, stack.condition),
      interpreter |-> conditionalizeAll(stack.own, stack.condition),
      scorer |-> conditionalizeAll(stack.own, stack.condition),
      stack |-> stack ]

StackChoices == [condition : RunConditions, own : [1..2 -> RunConditions]]

InitStack ==
    /\ GoalsIdle
    /\ \E stack \in StackChoices : conditions = withStack(stack)
    /\ sdmContext \in [flag : BOOLEAN]
    /\ call \in {c \in Calls : c.fn = "interpret" /\ c.project}
    /\ callsMade = <<[full |-> call.full, flag |-> sdmContext.flag]>>
    /\ scannerRegistrations =
            evaluatedAll(<<toy2Scanner, toyScanner>>, conditions.scanner, call, sdmContext)
    /\ contributorRegistrations = <<AlwaysTRC, snipContributor>>
    /\ interpreters =
            evaluatedAll(<<toyDeployer, silentFixer>>, conditions.interpreter, call, sdmContext)
    /\ scorers = evaluatedAll(ConditionalScorers, conditions.scorer, call, sdmContext)
    /\ pc = "scanning"
    /\ inFlight = {}
    /\ settled = {}
    /\ cursor = noneVisited
    /\ analysis = newAnalysis(call.full)
    /\ transformRecipes = <<>>
    /\ analysisSoFar = [i \in 1..MaxScanners |-> unread]
    /\ usable = notAsked
    /\ utilitiesIdle
    /\ weightings = emptyMap
    /\ composite = notScored
    /\ rejection = None
    /\ swallowed = {}
    /\ enrichView = [i \in 1..MaxInterpreters |-> None]
    /\ scoreView = [i \in 1..MaxScorers |-> None]
    /\ wrote = [i \in 1..MaxInterpreters |-> {}]
    /\ enrichReturned = [i \in 1..MaxInterpreters |-> None]
    /\ enrichCount = [i \in 1..MaxInterpreters |-> 0]
    /\ scoreCount = [i \in 1..MaxScorers |-> 0]
    /\ interp = noInterpretation
    /\ run = 0
    /\ nested = FALSE

SpecStack == InitStack /\ [][NextFull]_vars

stackConditionHolds == runWhenOf(conditions.stack.condition, thisCall, thisCall)

ownConditionHolds(i) == runWhenOf(conditions.stack.own[i], thisCall, thisCall)

invoked(i) ==
    /\ started("scanner", i)
    /\ enrichCount[i] > 0
    /\ scoreCount[i] > 0

notInvoked(i) ==
    /\ ~started("scanner", i)
    /\ enrichCount[i] = 0
    /\ scoreCount[i] = 0

\* C24 (scanners, interpreters, scorers): a registration of the stack without
\* a condition of its own does not run in a call where the stack condition is
\* false, and one with its own runWhen follows only its own runWhen.
C24_StackConditionOnActions ==
    \A i \in 1..2 :
        /\ (conditions.stack.own[i] = "none" /\ ~stackConditionHolds) => notInvoked(i)
        /\ (conditions.stack.own[i] # "none" /\ ~ownConditionHolds(i)) => notInvoked(i)
        /\ (conditions.stack.own[i] # "none" /\ ownConditionHolds(i) /\ pc = "done")
                => invoked(i)

C24_Witness ==
    /\ pc = "done"
    /\ conditions.stack = [condition |-> "flag", own |-> <<"none", "full">>]
    /\ thisCall = [full |-> TRUE, flag |-> FALSE]
    /\ notInvoked(1)
    /\ invoked(2)

\* C24: when a stack is added with a condition, none of its registrations
\* without a condition of their own (scanners, interpreters, scorers and
\* transform recipe contributors) runs in a call where the stack condition
\* is false.
C24_StackConditionOnEveryRegistration ==
    ~stackConditionHolds =>
        /\ \A i \in 1..2 : conditions.stack.own[i] = "none" => notInvoked(i)
        /\ \A k \in 1..Len(contributorRegistrations) : ~started("contributor", k)

\* ------------------------------------------------------------------------
\* interpretationDriven.ts: materialChange

MaxPushTests == 2

\* push tests on what a push changed
PushTestNames == {"sourceChanged", "docsChanged", "anyPush"}

\* pushTest.mapping(pu)
mapping(test, push) ==
    CASE test = "sourceChanged" -> "source" \in push.changed
      [] test = "docsChanged" -> "docs" \in push.changed
      [] test = "anyPush" -> TRUE

\* anySatisfied(...tests).mapping(pu)
anySatisfied(tests, push) == \E k \in 1..Len(tests) : mapping(tests[k], push)

\* not(anySatisfied(...materialChangePushTests)).mapping(pu) when there are
\* push tests, false otherwise
materialChange(push) ==
    IF isSet(push.materialChangePushTests) /\ Len(push.materialChangePushTests[1]) > 0
    THEN ~anySatisfied(push.materialChangePushTests[1], push)
    ELSE FALSE

Pushes ==
    [ changed : SUBSET {"source", "docs"},
      materialChangePushTests :
          {None} \cup {Some(ts) : ts \in UpTo(PushTestNames, MaxPushTests)} ]

InitMaterial ==
    /\ GoalsIdle
    /\ nothingRegistered
    /\ call = [fn |-> "materialChange", project |-> FALSE, full |-> FALSE]
    /\ pc = "asking"
    /\ analysis = newAnalysis(FALSE)
    /\ interp = noInterpretation
    /\ weightings = emptyMap
    /\ composite = notScored
    /\ usable = notAsked
    /\ conditions = <<>>
    /\ sdmContext = [flag |-> FALSE]
    /\ callsMade = <<>>
    /\ pu \in Pushes
    /\ material = notAsked
    /\ deliveryIdle
    /\ pushMessages = <<>>
    /\ preferenceStore = {}
    /\ buttons = {}
    /\ dismissedFor = {}
    /\ lastRun = noRun

\* materialChange(pu)
CallMaterialChange ==
    /\ pc = "asking"
    /\ ~material.returned
    /\ material' = [returned |-> TRUE, value |-> materialChange(pu)]
    /\ pc' = "asked"
    /\ UNCHANGED <<goalVars, scoringVars, usable, conditions, sdmContext, callsMade, pu,
                   deliveryVars, messageVars, registrationVars, faultVars, interpVars, inFlight, settled,
                   cursor, analysis, transformRecipes, analysisSoFar>>

NextMaterial == CallMaterialChange

SpecMaterial == InitMaterial /\ [][NextMaterial]_vars

\* C27: a push is deemed a material change as soon as one of the
\* interpretation's materialChangePushTests returns true for it.
C27_MaterialWhenAnyTestSatisfied ==
    ( /\ material.returned
      /\ isSet(pu.materialChangePushTests)
      /\ \E k \in 1..Len(pu.materialChangePushTests[1]) :
             mapping(pu.materialChangePushTests[1][k], pu) )
        => material.value

\* ------------------------------------------------------------------------
\* messageGoal.ts: the message goal and the DismissMessage command

Repos == {[owner |-> "atomist", name |-> "a"], [owner |-> "atomist", name |-> "b"]}

\* PushMessages: a string, Attachments, and an Attachment with actions of its own
MessageChoices ==
    { [kind |-> "string", title |-> None, text |-> "upgrade", actions |-> <<>>],
      [kind |-> "attachment", title |-> Some("Upgrade"), text |-> "upgrade", actions |-> <<>>],
      [kind |-> "attachment", title |-> Some("Docker"), text |-> "no Dockerfile",
       actions |-> <<>>],
      [kind |-> "attachment", title |-> Some("Lint"), text |-> "lint errors",
       actions |-> <<[text |-> "Fix"]>>] }

\* what a PushMessageFactory returns: messages that differ from one another
MessageLists ==
    {ms \in UpTo(MessageChoices, 2) : \A j, k \in 1..Len(ms) : j # k => ms[j] # ms[k]}

\* one scope for every repository
scopeOfAny(repo) == <<"*", "*">>

\* `${repo.owner}/${repo.name}`
scopeOf(repo) == <<repo.owner, repo.name>>

\* md5 of JSON.stringify of the string, or of { title, text } of an Attachment;
\* the digest is taken to differ whenever the JSON text differs
createHash(pm) ==
    IF pm.kind = "string" THEN [json |-> "string", title |-> None, text |-> pm.text]
    ELSE [json |-> "object", title |-> pm.title, text |-> pm.text]

\* `project-analysis.message.dismissed.${hash}`
dismissedKey(hash) == <<"project-analysis.message.dismissed", hash>>

\* context.preferences.get(key, { defaultValue: false, scope })
isDismissed(pm, repo) ==
    [scope |-> scopeOf(repo), key |-> dismissedKey(createHash(pm))] \in preferenceStore

createDismissAction(pm, repo) ==
    [text |-> "Dismiss", scope |-> scopeOf(repo), hash |-> <<createHash(pm)>>]

createDismissAllAction(pms, repo) ==
    [ text |-> "Dismiss all", scope |-> scopeOf(repo),
      hash |-> [k \in 1..Len(pms) |-> createHash(pms[k])] ]

\* the Attachment sent for a message, with a Dismiss button unless the
\* message brings actions of its own
attachmentOf(pm, repo) ==
    [ title |-> pm.title, text |-> pm.text,
      actions |-> IF pm.actions = <<>> THEN <<createDismissAction(pm, repo)>> ELSE pm.actions ]

\* lastAttachment.actions = [...actions, Dismiss all when there are several messages]
withDismissAll(attachments, pms, repo) ==
    [attachments EXCEPT ![Len(attachments)].actions =
        @ \o (IF Len(pms) > 1 THEN <<createDismissAllAction(pms, repo)>> ELSE <<>>)]

notDismissed(pms, repo) == SelectSeq(pms, LAMBDA pm : ~isDismissed(pm, repo))

attachmentsOf(pms, repo) == [k \in 1..Len(pms) |-> attachmentOf(pms[k], repo)]

dismissButtons(attachments) ==
    {a \in UNION {Range(attachments[k].actions) : k \in 1..Len(attachments)} :
        a.text \in {"Dismiss", "Dismiss all"}}

\* one run of the goal for a push to repo: nothing is sent without messages;
\* with messages that are all dismissed lastAttachment is undefined and
\* setting its footer throws
RunMessageGoal(repo) ==
    /\ pc = "idle"
    /\ IF Len(pushMessages) = 0
       THEN /\ lastRun' = [ran |-> TRUE, repo |-> repo, state |-> "success",
                           attachments |-> <<>>, after |-> dismissedFor]
            /\ UNCHANGED buttons
       ELSE IF notDismissed(pushMessages, repo) = <<>>
       THEN /\ lastRun' = [ran |-> TRUE, repo |-> repo, state |-> "threw",
                           attachments |-> <<>>, after |-> dismissedFor]
            /\ UNCHANGED buttons
       ELSE /\ lastRun' =
                [ran |-> TRUE, repo |-> repo, state |-> "success",
                 attachments |->
                     withDismissAll(attachmentsOf(notDismissed(pushMessages, repo), repo),
                                    pushMessages, repo),
                 after |-> dismissedFor]
            /\ buttons' = buttons \cup dismissButtons(lastRun'.attachments)
    /\ UNCHANGED <<goalVars, scoringVars, usable, conditions, sdmContext, callsMade, pushVars, deliveryVars,
                   pushMessages, preferenceStore, dismissedFor, registrationVars, faultVars,
                   interpVars, analysisVars>>

\* the button shown for these messages of repo is used: the DismissMessage
\* listener puts one preference per hash under the button's scope
DismissMessage(repo, pms) ==
    /\ pc = "idle"
    /\ \E button \in buttons :
        /\ button = IF Len(pms) = 1
                    THEN createDismissAction(pms[1], repo)
                    ELSE createDismissAllAction(pms, repo)
        /\ preferenceStore' = preferenceStore \cup
                {[scope |-> button.scope, key |-> dismissedKey(button.hash[k])] :
                    k \in 1..Len(button.hash)}
    /\ dismissedFor' = dismissedFor \cup {[repo |-> repo, message |-> m] : m \in Range(pms)}
    /\ UNCHANGED <<goalVars, scoringVars, usable, conditions, sdmContext, callsMade, pushVars, deliveryVars,
                   pushMessages, buttons, lastRun, registrationVars, faultVars, interpVars,
                   analysisVars>>

InitDismiss ==
    /\ GoalsIdle
    /\ nothingRegistered
    /\ call = [fn |-> "none", project |-> FALSE, full |-> FALSE]
    /\ pc = "idle"
    /\ analysis = newAnalysis(FALSE)
    /\ interp = noInterpretation
    /\ weightings = emptyMap
    /\ composite = notScored
    /\ usable = notAsked
    /\ conditions = <<>>
    /\ sdmContext = [flag |-> FALSE]
    /\ callsMade = <<>>
    /\ pu = noPush
    /\ material = notAsked
    /\ deliveryIdle
    /\ pushMessages \in MessageLists
    /\ preferenceStore = {}
    /\ buttons = {}
    /\ dismissedFor = {}
    /\ lastRun = noRun

NextDismiss ==
    \/ \E repo \in Repos : RunMessageGoal(repo)
    \/ \E repo \in Repos :
          \E pms \in {<<pushMessages[k]>> : k \in 1..Len(pushMessages)} \cup {pushMessages} :
              DismissMessage(repo, pms)

SpecDismiss == InitDismiss /\ [][NextDismiss]_vars

\* the message is among the attachments of the latest run
sent(pm) ==
    \E k \in 1..Len(lastRun.attachments) :
        /\ lastRun.attachments[k].title = pm.title
        /\ lastRun.attachments[k].text = pm.text

\* C28: once DismissMessage has run with the hash and scope of a message's
\* Dismiss button, or of the Dismiss all button, every later run of the message
\* goal for that repository omits the dismissed messages and still sends those
\* not dismissed; a dismissal for one repository hides nothing for another.
C28_DismissedPerRepository ==
    lastRun.ran =>
        \A k \in 1..Len(pushMessages) :
            IF [repo |-> lastRun.repo, message |-> pushMessages[k]] \in lastRun.after
            THEN ~sent(pushMessages[k])
            ELSE sent(pushMessages[k]) /\ lastRun.state = "success"

C28_Witness ==
    /\ lastRun.ran
    /\ Len(pushMessages) = 2
    /\ lastRun.repo.name = "b"
    /\ lastRun.after =
          {[repo |-> r, message |-> pushMessages[1]] : r \in Repos}
              \cup {[repo |-> [owner |-> "atomist", name |-> "a"], message |-> pushMessages[2]]}
    /\ ~sent(pushMessages[1])
    /\ sent(pushMessages[2])

\* C39: every run of the message goal completes with state success, and
\* what it sends has one attachment per message that is not dismissed for the
\* repository of the run: nothing when there is no message or when all the
\* messages are dismissed.
C39_MessageGoalSucceeds ==
    lastRun.ran =>
        /\ lastRun.state = "success"
        /\ Len(lastRun.attachments) =
                Cardinality({k \in 1..Len(pushMessages) :
                    [repo |-> lastRun.repo, message |-> pushMessages[k]] \notin lastRun.after})

\* ------------------------------------------------------------------------
\* Initial state and actions of the goal-graph builder
\* ------------------------------------------------------------------------

Interpretations ==
    [ cancelGoal : {None, Some(cancelGoalName)},
      queueGoal : {None, Some(queueGoalName)},
      autofixes : {<<>>, <<"fix">>},
      inspections : {<<>>, <<"inspect">>},
      checkGoals : {None, Some(CheckSlotGoals)},
      buildGoals : {None, Some(BuildSlotGoals)},
      testGoals : {None, Some(TestSlotGoals)},
      containerBuildGoals : {None, Some(ContainerSlotGoals)},
      releaseGoals : {None, Some(ReleaseSlotGoals)},
      deployGoals : {None, Some(DeploySlotGoals)},
      preferences : {None} \cup {Some([disabledGoals |-> dg]) : dg \in DisabledGoalsChoices} ]

InitGoals ==
    /\ interpretation \in Interpretations
    /\ dependsOn = [g \in PhaseGoalNames |-> <<>>]
    /\ returned = [fn |-> "none", goals |-> None]
    /\ calls = 0
    /\ EngineIdle

CallCheckGoals ==
    /\ calls < MaxCalls
    /\ calls' = calls + 1
    /\ returned' = [fn |-> "checkGoals", goals |-> Some(checkGoals(interpretation))]
    /\ UNCHANGED <<interpretation, dependsOn, engineVars>>

CallBuildGoals ==
    /\ calls < MaxCalls
    /\ calls' = calls + 1
    /\ dependsOn' = buildGoals(interpretation, dependsOn)
    /\ returned' = [fn |-> "buildGoals", goals |-> slotResult(interpretation.buildGoals, dependsOn')]
    /\ UNCHANGED <<interpretation, engineVars>>

CallTestGoals ==
    /\ calls < MaxCalls
    /\ calls' = calls + 1
    /\ dependsOn' = testGoals(interpretation, dependsOn)
    /\ returned' = [fn |-> "testGoals", goals |-> slotResult(interpretation.testGoals, dependsOn')]
    /\ UNCHANGED <<interpretation, engineVars>>

CallContainerGoals ==
    /\ calls < MaxCalls
    /\ calls' = calls + 1
    /\ dependsOn' = containerGoals(interpretation, dependsOn)
    /\ returned' = [fn |-> "containerGoals",
                    goals |-> slotResult(interpretation.containerBuildGoals, dependsOn')]
    /\ UNCHANGED <<interpretation, engineVars>>

CallReleaseGoals ==
    /\ calls < MaxCalls
    /\ calls' = calls + 1
    /\ dependsOn' = releaseGoals(interpretation, dependsOn)
    /\ returned' = [fn |-> "releaseGoals",
                    goals |-> slotResult(interpretation.releaseGoals, dependsOn')]
    /\ UNCHANGED <<interpretation, engineVars>>

CallDeployGoals ==
    /\ calls < MaxCalls
    /\ calls' = calls + 1
    /\ dependsOn' = deployGoals(interpretation, dependsOn)
    /\ returned' = [fn |-> "deployGoals",
                    goals |-> slotResult(interpretation.deployGoals, dependsOn')]
    /\ UNCHANGED <<interpretation, engineVars>>

\* ------------------------------------------------------------------------
\* messagingGoals

messageGoalName == "message"

\* the messaging Goals are there whatever the messages
messagingGoalsAlways(i, d) == Some(<<[name |-> messageGoalName, dependsOn |-> d[messageGoalName]]>>)

\* goals("messaging").plan(analyzer.messageGoal) when there are messages
messagingGoals(i, d) ==
    IF Len(i.messages) > 0
    THEN Some(<<[name |-> messageGoalName, dependsOn |-> d[messageGoalName]]>>)
    ELSE None

CallMessagingGoals ==
    /\ calls < MaxCalls
    /\ calls' = calls + 1
    /\ returned' = [fn |-> "messagingGoals", goals |-> messagingGoals(interpretation, dependsOn)]
    /\ UNCHANGED <<interpretation, dependsOn, engineVars>>

NextGoals ==
    \/ CallCheckGoals
    \/ CallBuildGoals
    \/ CallTestGoals
    \/ CallContainerGoals
    \/ CallReleaseGoals
    \/ CallDeployGoals

SpecGoals == InitGoals /\ [][NextGoals]_vars

\* ------------------------------------------------------------------------
\* Properties of the goal-graph builder
\* ------------------------------------------------------------------------

\* the delivery phase slots in phase order: build, test, container, release, deploy
phaseSlot(i, p) ==
    CASE p = 1 -> i.buildGoals
      [] p = 2 -> i.testGoals
      [] p = 3 -> i.containerBuildGoals
      [] p = 4 -> i.releaseGoals
      [] p = 5 -> i.deployGoals

setPhasesBefore(i, p) == {q \in 1..(p - 1) : isSet(phaseSlot(i, q))}

maxOf(S) == CHOOSE m \in S : \A n \in S : n <= m

nearestEarlierGoals(i, p) ==
    IF setPhasesBefore(i, p) = {}
    THEN Range(names(checkGoals(i)))
    ELSE Range(phaseSlot(i, maxOf(setPhasesBefore(i, p)))[1])

\* C1: after deployGoals has built the graph, every goal of every set phase
\* slot (build, test, container, release, deploy) depends on every control
\* goal and on every goal of the nearest earlier set phase, the checks Goals
\* when no earlier slot is set.
C1_NearestPhaseEdges ==
    returned.fn = "deployGoals" =>
        \A p \in 1..5 :
            isSet(phaseSlot(interpretation, p)) =>
                \A g \in Range(phaseSlot(interpretation, p)[1]) :
                    /\ Range(controlGoals(interpretation)) \subseteq Range(dependsOn[g])
                    /\ nearestEarlierGoals(interpretation, p) \subseteq Range(dependsOn[g])

C1_Witness ==
    /\ returned.fn = "deployGoals"
    /\ isSet(interpretation.buildGoals) /\ isSet(interpretation.deployGoals)
    /\ ~isSet(interpretation.testGoals) /\ ~isSet(interpretation.containerBuildGoals)
    /\ ~isSet(interpretation.releaseGoals)
    /\ isSet(interpretation.queueGoal)
    /\ Range(BuildSlotGoals) \subseteq Range(dependsOn["deploy"])
    /\ queueGoalName \in Range(dependsOn["deploy"])

\* the goals reached from a set of goals over one more dependency edge
withDependencies(gs) ==
    gs \cup UNION {Range(dependsOn[h]) : h \in gs \cap DOMAIN dependsOn}

\* the goals g depends on, directly or through at most n further edges
RECURSIVE dependencies(_, _)
dependencies(g, n) ==
    IF n = 0 THEN Range(dependsOn[g]) ELSE withDependencies(dependencies(g, n - 1))

plannedChecks(i) == Range(controlGoals(i)) \cup Range(names(checkGoals(i)))

\* C35: every goal a returned check goal or build goal is declared to come
\* after is itself planned: it is a control goal or one of the check goals
\* checkGoals returns for the interpretation.
C35_PreconditionsArePlanned ==
    /\ returned.fn = "checkGoals" =>
            \A k \in 1..Len(returned.goals[1]) :
                Range(returned.goals[1][k].dependsOn) \subseteq plannedChecks(interpretation)
    /\ (returned.fn = "buildGoals" /\ isSet(returned.goals)) =>
            \A k \in 1..Len(returned.goals[1]) :
                Range(returned.goals[1][k].dependsOn) \subseteq plannedChecks(interpretation)

\* C2: a phase function is pure: a call changes neither the interpretation
\* nor the dependency list of any goal held in a phase slot.
C2_PhaseFunctionsPure ==
    [][interpretation' = interpretation /\ dependsOn' = dependsOn]_vars

\* C10: with a preferences element, checkGoals returns no goal whose display
\* name is disabled and returns every other assembled check goal in its
\* original order; without a preferences element it returns every assembled
\* check goal.
C10_DisabledGoalsRemoved ==
    returned.fn = "checkGoals" =>
        LET got == names(returned.goals[1])
            all == names(assembledChecks(interpretation))
            prefs == interpretation.preferences
            disabled == IF isSet(prefs) THEN Range(prefs[1].disabledGoals) ELSE {}
        IN  /\ \A k \in 1..Len(got) : displayName(got[k]) \notin disabled
            /\ \A k \in 1..Len(all) :
                    displayName(all[k]) \notin disabled => all[k] \in Range(got)
            /\ \A k \in 1..Len(got) : got[k] \in Range(all)
            /\ \A k, l \in 1..Len(got) :
                    k < l => \E m, n \in 1..Len(all) :
                                m < n /\ all[m] = got[k] /\ all[n] = got[l]
            /\ ~isSet(prefs) => got = all

C10_Witness ==
    /\ returned.fn = "checkGoals"
    /\ isSet(interpretation.preferences)
    /\ interpretation.preferences[1].disabledGoals = <<"Lint">>
    /\ Len(assembledChecks(interpretation)) = 4
    /\ names(returned.goals[1]) = <<autofixGoal, codeInspectionGoal, "audit">>

\* ------------------------------------------------------------------------
\* The messaging phase beside the delivery phases

\* an Interpretation with messages, or without
MessagingInterpretations ==
    {[messages |-> m] @@ i :
        m \in {<<>>, <<"deploying">>},
        i \in {j \in Interpretations :
                    /\ j.preferences = None
                    /\ j.autofixes = <<"fix">>
                    /\ j.inspections = <<>>
                    /\ isSet(j.checkGoals)}}

InitMessaging ==
    /\ interpretation \in MessagingInterpretations
    /\ dependsOn = [g \in PhaseGoalNames \cup {messageGoalName} |-> <<>>]
    /\ returned = [fn |-> "none", goals |-> None]
    /\ calls = 0
    /\ EngineIdle

NextMessaging == NextGoals \/ CallMessagingGoals

SpecMessaging == InitMessaging /\ [][NextMessaging]_vars

deliveryAndControlGoals ==
    PhaseGoalNames \cup Range(CheckSlotGoals)
        \cup {cancelGoalName, queueGoalName, autofixGoal, codeInspectionGoal}

\* C26: messagingGoals returns a Goals holding only the message goal when
\* interpretation.messages is not empty and nothing when it is empty;
\* building the delivery phases adds no dependency edge from a delivery-phase
\* goal to the message goal, nor from the message goal to a delivery-phase or
\* control goal.
C26_MessagingIsIndependent ==
    /\ returned.fn = "messagingGoals" =>
            /\ isSet(returned.goals) <=> interpretation.messages # <<>>
            /\ isSet(returned.goals) => names(returned.goals[1]) = <<messageGoalName>>
    /\ Range(dependsOn[messageGoalName]) \cap deliveryAndControlGoals = {}
    /\ \A g \in PhaseGoalNames : messageGoalName \notin Range(dependsOn[g])
    /\ isSet(returned.goals) =>
            \A k \in 1..Len(returned.goals[1]) :
                messageGoalName \notin Range(returned.goals[1][k].dependsOn)

C26_Witness ==
    /\ calls = 2
    /\ returned.fn = "messagingGoals"
    /\ returned.goals = Some(<<[name |-> messageGoalName, dependsOn |-> <<>>]>>)
    /\ interpretation.messages = <<"deploying">>
    /\ dependsOn["deploy"] # <<>>

\* ------------------------------------------------------------------------
\* Goal setting over several pushes: the Goals in the phase slots are
\* constructed once and selected per push (phases.ts, DeliveryPhases)

MaxPushes == 2

\* what the interpreters select for a push out of the pre-constructed Goals
PushInterpretations ==
    {i \in Interpretations :
        /\ i.cancelGoal = None
        /\ i.queueGoal = Some(queueGoalName)
        /\ i.autofixes = <<>> /\ i.inspections = <<>>
        /\ i.checkGoals = None
        /\ i.containerBuildGoals = None /\ i.releaseGoals = None
        /\ i.preferences = None}

InitPushes ==
    /\ interpretation \in PushInterpretations
    /\ dependsOn = [g \in PhaseGoalNames |-> <<>>]
    /\ returned = [fn |-> "none", goals |-> None]
    /\ calls = 0
    /\ EngineIdle

\* the next push: a new Interpretation whose slots hold the same Goal objects
NextPush ==
    /\ pushes < MaxPushes
    /\ returned.fn # "none"
    /\ pushes' = pushes + 1
    /\ interpretation' \in PushInterpretations
    /\ returned' = [fn |-> "none", goals |-> None]
    /\ calls' = 0
    /\ UNCHANGED <<dependsOn, registrationVars, analysisVars, interpVars, faultVars, scoringVars,
                   usable, conditions, sdmContext, callsMade, pushVars, messageVars,
                   built, goalRegistrations, applied, optionalGoals, concurrentVars, hung>>

NextPushes ==
    \/ CallBuildGoals
    \/ CallTestGoals
    \/ CallDeployGoals
    \/ NextPush

SpecPushes == InitPushes /\ [][NextPushes]_vars

\* the goals a goal of phase p may come after in the graph of interpretation i
controlAndEarlierGoals(i, p) ==
    Range(controlGoals(i)) \cup Range(names(checkGoals(i)))
        \cup UNION {Range(phaseSlot(i, q)[1]) : q \in setPhasesBefore(i, p)}

\* C32: after any sequence of pushes, when a phase function has returned, the
\* dependencies of every goal of a phase slot of the current interpretation
\* are control goals, check goals and goals of earlier set phases of the
\* current interpretation only: no edge of an earlier push is left.
C32_NoEdgesOfEarlierPushes ==
    returned.fn = "deployGoals" =>
        \A p \in 1..5 :
            isSet(phaseSlot(interpretation, p)) =>
                \A g \in Range(phaseSlot(interpretation, p)[1]) :
                    Range(dependsOn[g]) \subseteq controlAndEarlierGoals(interpretation, p)

\* ------------------------------------------------------------------------
\* build(), registerAutofixes and registerCodeInspections

\* autofix and inspection registrations, with and without a push test of their own
fixRegistration == [name |-> "fix", pushTest |-> None]

lintFixRegistration == [name |-> "lint-fix", pushTest |-> Some("sourceChanged")]

lintRegistration == [name |-> "lint", pushTest |-> Some("docsChanged")]

\* interpreters that declare autofixes and code inspections and push them
\* onto the Interpretation when they act
toyFixer ==
    [ runWhen |-> TRUE, looksFor |-> Some("toy"), slot |-> None, polite |-> FALSE,
      autofixes |-> <<fixRegistration>>, inspections |-> <<lintRegistration>>,
      messages |-> <<>>, returns |-> TRUE, rejects |-> FALSE ]

sourceFixer ==
    [ runWhen |-> TRUE, looksFor |-> None, slot |-> None, polite |-> FALSE,
      autofixes |-> <<lintFixRegistration>>, inspections |-> <<>>,
      messages |-> <<>>, returns |-> TRUE, rejects |-> FALSE ]

RegisteringInterpreters == {toyFixer, sourceFixer, [sourceFixer EXCEPT !.runWhen = FALSE]}

\* this.possibleAutofixes.push(...interpreter.autofixes), over withInterpreter
RECURSIVE possibleAutofixes(_)
possibleAutofixes(regs) ==
    IF regs = <<>> THEN <<>> ELSE Head(regs).autofixes \o possibleAutofixes(Tail(regs))

\* this.possibleCodeInspections.push(...interpreter.codeInspections)
RECURSIVE possibleCodeInspections(_)
possibleCodeInspections(regs) ==
    IF regs = <<>> THEN <<>> ELSE Head(regs).inspections \o possibleCodeInspections(Tail(regs))

\* runInterpretation over the first n interpreters
RECURSIVE interpretationOf(_, _)
interpretationOf(a, n) ==
    IF n = 0 THEN newInterpretation
    ELSE IF interpreters[n].runWhen
         THEN enrich(interpreters[n], n, a, interpretationOf(a, n - 1)).interpretation
         ELSE interpretationOf(a, n - 1)

\* analyzer.interpret(pu.project, pu)
interpret(a) == interpretationOf(a, Len(interpreters))

\* interpretation.autofixes.includes(thisTransform)
interpretationAutofixPushTest(thisTransform, a) ==
    thisTransform \in Range(interpret(a).autofixes)

\* interpretation.inspections.includes(thisTransform)
interpretationCodeInspectionPushTest(thisTransform, a) ==
    thisTransform \in Range(interpret(a).inspections)

\* registration.pushTest || AnyPush
ownPushTest(registration) ==
    IF isSet(registration.pushTest) THEN registration.pushTest[1] ELSE "anyPush"

\* the first push test decides alone
firstSatisfied(first, second) == first

\* allSatisfied(first, second).mapping(pu)
allSatisfied(first, second) == first /\ second

\* goal.with({...registration, pushTest: allSatisfied(..)}) for every possible one
registered(kind, possible) ==
    [k \in 1..Len(possible) |-> [kind |-> kind, registration |-> possible[k]]]

\* the push test the goal holds for a registration, evaluated on a push
registeredPushTest(r, a, push) ==
    allSatisfied(
        IF r.kind = "autofix"
        THEN interpretationAutofixPushTest(r.registration, a)
        ELSE interpretationCodeInspectionPushTest(r.registration, a),
        mapping(ownPushTest(r.registration), push))

InitBuild ==
    /\ GoalsIdle
    /\ noInterpreterState
    /\ interpreters \in UpTo(RegisteringInterpreters, MaxInterpreters)
    /\ scorers = <<>>
    /\ scannerRegistrations = <<>>
    /\ contributorRegistrations = <<>>
    /\ call = [fn |-> "none", project |-> FALSE, full |-> FALSE]
    /\ pc = "building"
    /\ inFlight = {}
    /\ settled = {}
    /\ cursor = noneVisited
    /\ analysis = newAnalysis(FALSE)
    /\ transformRecipes = <<>>
    /\ analysisSoFar = <<>>

\* build(): registerAutofixes(this.autofixGoal, this) and
\* registerCodeInspections(this.codeInspectionGoal, this)
Build ==
    /\ pc = "building"
    /\ ~built
    /\ built' = TRUE
    /\ goalRegistrations' = registered("autofix", possibleAutofixes(interpreters))
                                \o registered("inspection", possibleCodeInspections(interpreters))
    /\ pc' = "idle"
    /\ UNCHANGED <<goalVars, scoringVars, registrationVars, faultVars, interpVars, inFlight,
                   settled, cursor, analysis, transformRecipes, analysisSoFar, usable,
                   conditions, sdmContext, callsMade, pushVars, messageVars, pushes, applied,
                   optionalGoals, concurrentVars, hung>>

\* a push arrives: the two goals apply the registrations whose push test holds
ReceivePush(push, a) ==
    /\ pc = "idle"
    /\ built
    /\ applied = None
    /\ pu' = push
    /\ analysis' = a
    /\ applied' = Some({k \in 1..Len(goalRegistrations) :
                            registeredPushTest(goalRegistrations[k], a, push)})
    /\ pc' = "pushed"
    /\ UNCHANGED <<goalVars, scoringVars, registrationVars, faultVars, interpVars, inFlight,
                   settled, cursor, transformRecipes, analysisSoFar, usable, conditions,
                   sdmContext, callsMade, material, messageVars, pushes, built,
                   goalRegistrations, optionalGoals, concurrentVars, hung>>

\* the pushes and the analyses of their projects
PushedProjects ==
    {newAnalysis(FALSE),
     [newAnalysis(FALSE) EXCEPT !.elements =
        ("toy" :> [name |-> "toy", referencedEnvironmentVariables |-> <<>>])]}

NextBuild ==
    \/ Build
    \/ \E push \in {p \in Pushes : p.materialChangePushTests = None}, a \in PushedProjects :
            ReceivePush(push, a)

SpecBuild == InitBuild /\ [][NextBuild]_vars

\* C36: after build(), a declared autofix or code inspection is applied to a
\* push only if the interpretation of the push's project has that very
\* registration in its autofixes (or inspections) and the registration's own
\* push test, when it has one, passes.
C36_AppliedOnlyWhenInterpreted ==
    isSet(applied) =>
        \A k \in applied[1] :
            /\ goalRegistrations[k].registration \in
                    (IF goalRegistrations[k].kind = "autofix"
                     THEN Range(interpret(analysis).autofixes)
                     ELSE Range(interpret(analysis).inspections))
            /\ isSet(goalRegistrations[k].registration.pushTest) =>
                    mapping(goalRegistrations[k].registration.pushTest[1], pu)

\* the toy project's push changed docs only: fix and lint are applied,
\* lint-fix is not
C36_Witness ==
    /\ interpreters = <<toyFixer, sourceFixer>>
    /\ "toy" \in DOMAIN analysis.elements
    /\ pu.changed = {"docs"}
    /\ goalRegistrations =
            << [kind |-> "autofix", registration |-> fixRegistration],
               [kind |-> "autofix", registration |-> lintFixRegistration],
               [kind |-> "inspection", registration |-> lintRegistration] >>
    /\ applied = Some({1, 3})

\* ------------------------------------------------------------------------
\* preferencesScanner.ts

MaxOptionalGoals == 2

\* the goals that can be configured as optional
OptionalGoalChoices == {"lint", "audit"}

PreferenceScopes == {"sdm", "workspace"}

\* `${displayName}:enabled`
enabledKey(name) == <<name, "enabled">>

\* ctx.preferences.get(key, { scope }): the stored value, if there is one
get(store, key, scope) ==
    IF \E e \in store : e.scope = scope /\ e.key = key
    THEN Some((CHOOSE e \in store : e.scope = scope /\ e.key = key).value)
    ELSE None

\* ctx.preferences.put(key, value, { scope }) replaces the stored value
putPreference(store, key, scope, value) ==
    {e \in store : ~(e.scope = scope /\ e.key = key)}
        \cup {[scope |-> scope, key |-> key, value |-> value]}

\* a goal is left out only when its preference is stored as false
storedFalse(value) == isSet(value) /\ ~value[1]

\* !await ctx.preferences.get<boolean>(..): undefined and false are falsy
notEnabled(value) == ~(isSet(value) /\ value[1])

\* for (const optionalGoal of optionalGoals) { .. disabledGoals.push(displayName) }
RECURSIVE disabledGoalsOf(_, _)
disabledGoalsOf(configured, store) ==
    IF configured = <<>> THEN <<>>
    ELSE (IF notEnabled(get(store, enabledKey(displayName(Head(configured))), "sdm"))
          THEN <<displayName(Head(configured))>> ELSE <<>>)
            \o disabledGoalsOf(Tail(configured), store)

preferencesScanner(configured, store) ==
    [name |-> "preferences", tags |-> <<>>, disabledGoals |-> disabledGoalsOf(configured, store)]

InitPreferences ==
    /\ GoalsIdle
    /\ nothingRegistered
    /\ call = [fn |-> "analyze", project |-> TRUE, full |-> FALSE]
    /\ pc = "idle"
    /\ analysis = newAnalysis(FALSE)
    /\ interp = noInterpretation
    /\ weightings = emptyMap
    /\ composite = notScored
    /\ usable = notAsked
    /\ conditions = <<>>
    /\ sdmContext = [flag |-> FALSE]
    /\ callsMade = <<>>
    /\ pu = noPush
    /\ material = notAsked
    /\ pushes = 1
    /\ built = FALSE
    /\ goalRegistrations = <<>>
    /\ applied = None
    /\ optionalGoals \in UpTo(OptionalGoalChoices, MaxOptionalGoals)
    /\ hung = {}
    /\ invocations = [c \in ConcurrentCalls |-> notCalled]
    /\ interpretations = [c \in ConcurrentCalls |-> noInterpretation]
    /\ pushMessages = <<>>
    /\ preferenceStore = {}
    /\ buttons = {}
    /\ dismissedFor = {}
    /\ lastRun = noRun

\* a preference is stored; the analyses made before it are out of date
PutPreference(goal, scope, value) ==
    /\ preferenceStore' =
            putPreference(preferenceStore, enabledKey(displayName(goal)), scope, value)
    /\ preferenceStore' # preferenceStore
    /\ pc' = "idle"
    /\ UNCHANGED <<goalVars, scoringVars, registrationVars, faultVars, interpVars, inFlight,
                   settled, cursor, analysis, transformRecipes, analysisSoFar, usable,
                   conditions, sdmContext, callsMade, pushVars, deliveryVars, pushMessages,
                   buttons, dismissedFor, lastRun>>

\* an analysis by an analyzer whose one scanner is preferencesScanner
AnalyzePreferences ==
    /\ pc = "idle"
    /\ analysis' = mergeScanned(newAnalysis(FALSE),
                                preferencesScanner(optionalGoals, preferenceStore))
    /\ pc' = "analyzed"
    /\ UNCHANGED <<goalVars, scoringVars, registrationVars, faultVars, interpVars, inFlight,
                   settled, cursor, transformRecipes, analysisSoFar, usable, conditions,
                   sdmContext, callsMade, pushVars, deliveryVars, messageVars>>

NextPreferences ==
    \/ \E goal \in OptionalGoalChoices, scope \in PreferenceScopes, value \in BOOLEAN :
            PutPreference(goal, scope, value)
    \/ AnalyzePreferences

SpecPreferences == InitPreferences /\ [][NextPreferences]_vars

\* the preference of a goal is stored as true in the scope of the SDM
setToTrue(goal) ==
    [scope |-> "sdm", key |-> enabledKey(displayName(goal)), value |-> TRUE] \in preferenceStore

\* C37: the analysis has an element named preferences whose disabledGoals
\* lists, in configuration order, exactly the display names of the configured
\* optional goals whose <displayName>:enabled preference is not stored as true.
C37_DisabledUnlessEnabled ==
    pc = "analyzed" =>
        /\ "preferences" \in DOMAIN analysis.elements
        /\ analysis.elements["preferences"].name = "preferences"
        /\ analysis.elements["preferences"].disabledGoals =
                [k \in 1..Len(SelectSeq(optionalGoals, LAMBDA g : ~setToTrue(g))) |->
                    displayName(SelectSeq(optionalGoals, LAMBDA g : ~setToTrue(g))[k])]

\* lint was enabled after configuration, audit never: a later analysis lists
\* audit only
C37_Witness ==
    /\ pc = "analyzed"
    /\ optionalGoals = <<"lint", "audit">>
    /\ preferenceStore =
            {[scope |-> "sdm", key |-> enabledKey("Lint"), value |-> TRUE],
             [scope |-> "workspace", key |-> enabledKey("Audit"), value |-> TRUE]}
    /\ analysis.elements["preferences"].disabledGoals = <<"Audit">>

\* ------------------------------------------------------------------------
\* Two interpret calls in flight on one analyzer

\* one Interpretation object is a field of the analyzer
analyzerInterpretation(c) == 1

\* const interpretation: Interpretation = { .. }: a local of the invocation
ownInterpretation(c) == c

\* enrich and the push onto chosenInterpreters that follows it
enrichAndChoose(reg, idx, a, i) ==
    [enrich(reg, idx, a, i).interpretation EXCEPT
        !.chosenInterpreters = choose(@, idx, enrich(reg, idx, a, i).enriched)]

\* the score scorer j resolves to
scoreOf(j) == [name |-> scorers[j].name, score |-> scorers[j].score, by |-> j, run |-> run]

InitConcurrent ==
    /\ GoalsIdle
    /\ noInterpreterState
    /\ interpreters \in ListsOf({toyDeployer, politeDeployer, silentFixer}, MaxInterpreters)
    /\ scorers \in ListsOf({s \in ScorerChoices : s.runWhen}, MaxScorers)
    /\ scannerRegistrations = <<>>
    /\ contributorRegistrations = <<>>
    /\ call = [fn |-> "interpret", project |-> FALSE, full |-> FALSE]
    /\ pc = "concurrent"
    /\ inFlight = {}
    /\ settled = {}
    /\ cursor = noneVisited
    /\ analysis = newAnalysis(FALSE)
    /\ transformRecipes = <<>>
    /\ analysisSoFar = <<>>

concurrentUnchanged ==
    UNCHANGED <<goalVars, scoringVars, registrationVars, faultVars, interpVars, analysisVars,
                usable, conditions, sdmContext, callsMade, pushVars, messageVars, pushes,
                built, goalRegistrations, applied, optionalGoals, hung>>

\* interpret(analysis, sdmContext): runInterpretation builds its Interpretation
StartInterpret(c, a) ==
    /\ pc = "concurrent"
    /\ invocations[c].pc = "idle"
    /\ invocations' = [invocations EXCEPT ![c] =
            [pc |-> "interpreting", analysis |-> a, visited |-> 0, scored |-> 0,
             awaiting |-> FALSE]]
    /\ interpretations' = [interpretations EXCEPT ![ownInterpretation(c)] = newInterpretation]
    /\ concurrentUnchanged

\* one iteration of the loop over the interpreters, up to the await
VisitInterpreterOf(c) ==
    /\ invocations[c].pc = "interpreting"
    /\ ~invocations[c].awaiting
    /\ invocations[c].visited < Len(interpreters)
    /\ invocations' = [invocations EXCEPT ![c] =
            IF interpreters[invocations[c].visited + 1].runWhen
            THEN [@ EXCEPT !.awaiting = TRUE]
            ELSE [@ EXCEPT !.visited = @ + 1]]
    /\ UNCHANGED interpretations
    /\ concurrentUnchanged

\* the awaited enrich of the invocation resolves
ResolveEnrichOf(c) ==
    /\ invocations[c].pc = "interpreting"
    /\ invocations[c].awaiting
    /\ invocations[c].visited < Len(interpreters)
    /\ interpretations' = [interpretations EXCEPT ![ownInterpretation(c)] =
            enrichAndChoose(interpreters[invocations[c].visited + 1],
                            invocations[c].visited + 1, invocations[c].analysis, @)]
    /\ invocations' = [invocations EXCEPT ![c] =
            [@ EXCEPT !.visited = @ + 1, !.awaiting = FALSE]]
    /\ concurrentUnchanged

\* one iteration of the loop over the scorers, up to the await
VisitScorerOf(c) ==
    /\ invocations[c].pc = "interpreting"
    /\ ~invocations[c].awaiting
    /\ invocations[c].visited = Len(interpreters)
    /\ invocations[c].scored < Len(scorers)
    /\ invocations' = [invocations EXCEPT ![c] =
            IF scorers[invocations[c].scored + 1].runWhen
            THEN [@ EXCEPT !.awaiting = TRUE]
            ELSE [@ EXCEPT !.scored = @ + 1]]
    /\ UNCHANGED interpretations
    /\ concurrentUnchanged

\* the awaited scorer of the invocation resolves and its score is recorded
ResolveScorerOf(c) ==
    /\ invocations[c].pc = "interpreting"
    /\ invocations[c].awaiting
    /\ invocations[c].visited = Len(interpreters)
    /\ interpretations' = [interpretations EXCEPT ![ownInterpretation(c)] =
            [@ EXCEPT !.scores = recordScore(@, scoreOf(invocations[c].scored + 1))]]
    /\ invocations' = [invocations EXCEPT ![c] =
            [@ EXCEPT !.scored = @ + 1, !.awaiting = FALSE]]
    /\ concurrentUnchanged

\* return interpretation
ReturnInterpretationOf(c) ==
    /\ invocations[c].pc = "interpreting"
    /\ ~invocations[c].awaiting
    /\ invocations[c].visited = Len(interpreters)
    /\ invocations[c].scored = Len(scorers)
    /\ invocations' = [invocations EXCEPT ![c] = [@ EXCEPT !.pc = "done"]]
    /\ UNCHANGED interpretations
    /\ concurrentUnchanged

NextConcurrent ==
    \E c \in ConcurrentCalls :
        \/ \E a \in PushedProjects : StartInterpret(c, a)
        \/ VisitInterpreterOf(c)
        \/ ResolveEnrichOf(c)
        \/ VisitScorerOf(c)
        \/ ResolveScorerOf(c)
        \/ ReturnInterpretationOf(c)

SpecConcurrent == InitConcurrent /\ [][NextConcurrent]_vars

\* the Interpretation after the first n interpreters, alone on analysis a
RECURSIVE aloneInterpreted(_, _)
aloneInterpreted(a, n) ==
    IF n = 0 THEN newInterpretation
    ELSE IF interpreters[n].runWhen
         THEN enrichAndChoose(interpreters[n], n, a, aloneInterpreted(a, n - 1))
         ELSE aloneInterpreted(a, n - 1)

\* and after the first m scorers
RECURSIVE aloneScored(_, _, _)
aloneScored(a, n, m) ==
    IF m = 0 THEN aloneInterpreted(a, n)
    ELSE IF scorers[m].runWhen
         THEN [aloneScored(a, n, m - 1) EXCEPT !.scores = recordScore(@, scoreOf(m))]
         ELSE aloneScored(a, n, m - 1)

\* C38: each of two interpret calls in flight works on its own freshly
\* constructed Interpretation: at every point of every interleaving, the
\* Interpretation of a call is what its own interpreters and scorers so far
\* make of a fresh Interpretation on the call's own analysis, with nothing
\* the other call wrote.
C38_InterpretationPerCall ==
    pc = "concurrent" =>
        \A c \in ConcurrentCalls :
            invocations[c].pc # "idle" =>
                interpretations[c] =
                    aloneScored(invocations[c].analysis, invocations[c].visited,
                                invocations[c].scored)

\* the first call has returned with the toy deployment while the second call,
\* on a project without toy, is between its two interpreters
C38_Witness ==
    /\ pc = "concurrent"
    /\ interpreters = <<silentFixer, toyDeployer>>
    /\ invocations[1].pc = "done"
    /\ "toy" \in DOMAIN invocations[1].analysis.elements
    /\ invocations[2].pc = "interpreting"
    /\ invocations[2].visited = 1
    /\ "toy" \notin DOMAIN invocations[2].analysis.elements
    /\ interpretations[1].chosenInterpreters = <<2>>
    /\ interpretations[1].autofixes = <<"lint-fix">>
    /\ interpretations[2].chosenInterpreters = <<>>
    /\ interpretations[2].autofixes = <<"lint-fix">>
    /\ interpretations[2].slots["deployGoals"] = None

\* ------------------------------------------------------------------------
\* Termination of analyze and interpret

\* every promise a call can await
Promises ==
    {promise("scanner", i) : i \in 1..MaxScanners}
        \cup {promise("contributor", i) : i \in 1..MaxContributors}
        \cup {promise("interpreter", i) : i \in 1..MaxInterpreters}
        \cup {promise("scorer", j) : j \in 1..MaxScorers}

\* at most one contributor of the call never settles
HungChoices == {{}} \cup {{q} : q \in Promises}

InitLive ==
    /\ GoalsIdle
    /\ scannerRegistrations \in InterpretScanners
    /\ contributorRegistrations \in InterpretContributors
    /\ interpreters \in
            ListsOf({toyDeployer, [toyDeployer EXCEPT !.runWhen = FALSE]}, MaxInterpreters)
    /\ scorers \in ListsOf({s \in ScorerChoices : s.score = 4}, MaxScorers)
    /\ call \in {c \in Calls : c.fn = "interpret" \/ c.project}
    /\ pc = analyzeIfProject(call)
    /\ inFlight = {}
    /\ settled = {}
    /\ cursor = noneVisited
    /\ analysis = givenAnalysis(call, scannerRegistrations)
    /\ transformRecipes = <<>>
    /\ analysisSoFar = [i \in 1..MaxScanners |-> unread]
    /\ supportFresh
    /\ interpreterIdle
    /\ hung \in HungChoices

\* the steps of the engine itself: calls, loop iterations, returns
EngineStep ==
    \/ \E i \in 1..MaxScanners : StartScanner(i)
    \/ MergeScanned
    \/ BeginSeedAnalysis
    \/ \E i \in 1..MaxContributors : StartContributor(i)
    \/ ReturnAnalysis
    \/ BeginInterpretation
    \/ \E i \in 1..MaxInterpreters : VisitInterpreter(i)
    \/ \E j \in 1..MaxScorers : VisitScorer(j)
    \/ ReturnInterpretation

\* a promise that is not hung settles
Settle ==
    \/ \E i \in 1..MaxScanners : promise("scanner", i) \notin hung /\ ResolveScanner(i)
    \/ \E i \in 1..MaxContributors :
            promise("contributor", i) \notin hung /\ ResolveContributor(i)
    \/ \E i \in 1..MaxInterpreters :
            promise("interpreter", i) \notin hung /\ ResolveEnrich(i)
    \/ \E j \in 1..MaxScorers : promise("scorer", j) \notin hung /\ ResolveScorer(j)

NextLive == EngineStep \/ Settle

\* the event loop runs a continuation that is ready, and every promise that
\* is not hung settles
SpecLive == InitLive /\ [][NextLive]_vars /\ WF_vars(EngineStep) /\ WF_vars(Settle)

\* the call invokes the registration behind the promise
invokedInCall(q) ==
    CASE q.kind = "scanner" -> call.project /\ q.idx \in eligibleScanners
      [] q.kind = "contributor" ->
            call.project /\ fullAsked /\ q.idx <= Len(contributorRegistrations)
      [] q.kind = "interpreter" ->
            call.fn = "interpret" /\ q.idx <= Len(interpreters) /\ interpreters[q.idx].runWhen
      [] q.kind = "scorer" ->
            call.fn = "interpret" /\ q.idx <= Len(scorers) /\ scorers[q.idx].runWhen

\* the promise of the call has settled
callSettled == IF call.fn = "interpret" THEN pc = "done" ELSE pc = "analyzed"

====
